---- MODULE Spec2Model ----
(***************************************************************************)
(* Observability core of the substitute recommender: MetricsCollector,     *)
(* ObservabilityStorage, DriftDetector, ObservabilityMiddleware, the       *)
(* with_observability wrapper and recommend_substitute.                    *)
(*                                                                         *)
(* Conventions.  An Optional value is a sequence of length at most one:    *)
(* None is << >> and a present value v is << v >>.  A text is a sequence   *)
(* of one-character strings.  Money is counted in units of 1e-8 USD, so    *)
(* that (tokens / 1000) * price-per-1K is an integer.                      *)
(***************************************************************************)
EXTENDS Integers, Sequences, FiniteSets, TLC

VARIABLES
    current_request_metrics,  \* MetricsCollector.current_request_metrics
    agent_metrics_list,       \* MetricsCollector.agent_metrics_list
    current_request_id,       \* ObservabilityMiddleware.current_request_id
    enable_ai_analysis,       \* ObservabilityMiddleware.enable_ai_analysis
    ai_analyzer,              \* ObservabilityMiddleware.ai_analyzer is not None
    baseline_metrics,         \* DriftDetector.baseline_metrics
    baseline_text_samples,    \* DriftDetector.baseline_text_samples
    recent_metrics,           \* ObservabilityStorage.recent_metrics
    recent_analyses,          \* ObservabilityStorage.recent_analyses
    drift_history,            \* ObservabilityStorage.drift_history
    files,                    \* storage_dir: day -> lines of metrics_<day>.jsonl
    lock,                     \* ObservabilityStorage.lock: the thread holding it
    today,                    \* the current UTC day (datetime.utcnow())
    uuids,                    \* number of request ids given out so far
    ntracks,                  \* number of track_agent_execution calls so far
    observability_instance,   \* middleware._observability_instance is not None
    threads,                  \* the callers of recommend_substitute
    returned,                 \* what the last Storage query returned
    appended,                 \* per stream: what the caches were given since construction
    persisted,                \* per stream: the records written to today's partition
    last                      \* outcome of the last call: what, and whether it raised

collector == <<current_request_metrics, agent_metrics_list>>
detector  == <<baseline_metrics, baseline_text_samples>>
storage   == <<recent_metrics, recent_analyses, drift_history, files, lock>>
middleware == <<current_request_id, enable_ai_analysis, ai_analyzer>>
observer  == <<returned, appended, persisted>>
vars == <<current_request_metrics, agent_metrics_list, current_request_id,
          enable_ai_analysis, ai_analyzer, baseline_metrics, baseline_text_samples, recent_metrics,
          recent_analyses, drift_history, files, lock, today, uuids, ntracks,
          observability_instance, threads, returned, appended, persisted, last>>

None == << >>
Some(v) == << v >>

Min(a, b) == IF a < b THEN a ELSE b

\* Python's seq[-n:] for n >= 0.  seq[-0:] is seq[0:], the whole sequence.
LastN(seq, n) ==
    IF n = 0 \/ n >= Len(seq) THEN seq ELSE SubSeq(seq, Len(seq) - n + 1, Len(seq))

\* Python's seq[:n] for n >= 0.
FirstN(seq, n) == SubSeq(seq, 1, Min(n, Len(seq)))

RECURSIVE SumSeq(_)
\* sum(seq), halving the sequence.
SumSeq(seq) ==
    IF seq = << >> THEN 0
    ELSE IF Len(seq) = 1 THEN seq[1]
    ELSE SumSeq(SubSeq(seq, 1, Len(seq) \div 2))
         + SumSeq(SubSeq(seq, Len(seq) \div 2 + 1, Len(seq)))

(***************************************************************************)
(* MetricsCollector                                                        *)
(***************************************************************************)

\* Prices per 1K tokens in units of 1e-5 USD, i.e. per token in 1e-8 USD.
MODEL_PRICING ==
    [m \in {"bedrock/us.anthropic.claude-3-5-sonnet-20241022-v2:0",
            "bedrock/anthropic.claude-3-sonnet-20240229-v1:0",
            "gpt-4", "gpt-3.5-turbo", "us.amazon.nova-micro-v1:0"} |->
        CASE m = "gpt-4" -> [input |-> 3000, output |-> 6000]
          [] m = "gpt-3.5-turbo" -> [input |-> 150, output |-> 200]
          [] m = "us.amazon.nova-micro-v1:0" -> [input |-> 3, output |-> 7]
          [] OTHER -> [input |-> 300, output |-> 1500]]

InputTextCap == 500
OutputTextCap == 1000

\* The cl100k_base encoder is an external library: it is modelled as giving
\* one token per character.
Encode(text) == text

count_tokens(text) == IF text = << >> THEN 0 ELSE Len(Encode(text))

calculate_cost(input_tokens, output_tokens, model_name) ==
    LET pricing == IF model_name \in DOMAIN MODEL_PRICING
                   THEN MODEL_PRICING[model_name]
                   ELSE MODEL_PRICING["gpt-3.5-turbo"]
    IN  input_tokens * pricing.input + output_tokens * pricing.output

\* The AgentMetrics that track_agent_execution builds from its arguments.
AgentMetrics(a, now) ==
    LET input_tokens  == count_tokens(a.input_text)
        output_tokens == count_tokens(a.output_text)
    IN  [agent_name |-> a.agent_name,
         timestamp |-> now,
         execution_time_ms |-> a.execution_time_ms,
         input_text |-> FirstN(a.input_text, InputTextCap),
         output_text |-> FirstN(a.output_text, OutputTextCap),
         input_tokens |-> input_tokens,
         output_tokens |-> output_tokens,
         total_tokens |-> input_tokens + output_tokens,
         estimated_cost_usd |-> calculate_cost(input_tokens, output_tokens, a.model_name),
         model_name |-> a.model_name,
         success |-> a.success,
         error_message |-> a.error_message]

\* start_request without the reset of agent_metrics_list.
start_request_keeps_units(c, request_id, req, now) ==
    <<Some([request_id |-> request_id,
            timestamp |-> now,
            requested_item |-> req.requested_item,
            country |-> req.country,
            urgency |-> req.urgency,
            agents_executed |-> << >>]),
      c[2]>>

\* start_request: the new context and the emptied unit list.  `c` is the
\* collector <<current_request_metrics, agent_metrics_list>>.
start_request(c, request_id, req, now) ==
    <<Some([request_id |-> request_id,
            timestamp |-> now,
            requested_item |-> req.requested_item,
            country |-> req.country,
            urgency |-> req.urgency,
            agents_executed |-> << >>]),
      << >>>>

\* track_agent_execution: the unit is appended to agent_metrics_list in every
\* case; the agent name only when a context is open.
track_agent_execution(c, a, now) ==
    <<IF c[1] # None
        THEN Some([c[1][1] EXCEPT !.agents_executed = Append(@, a.agent_name)])
        ELSE c[1],
      Append(c[2], AgentMetrics(a, now))>>

\* finalize_request raises ValueError when no context is open.
finalize_raises(c) == c[1] = None

\* The RequestMetrics finalize_request returns (as the dict get_metrics_dict
\* makes of it) when a context is open.
RequestMetrics(c, f) ==
    [request_id |-> c[1][1].request_id,
     timestamp |-> c[1][1].timestamp,
     requested_item |-> c[1][1].requested_item,
     country |-> c[1][1].country,
     urgency |-> c[1][1].urgency,
     strategy |-> f.strategy,
     total_execution_time_ms |-> f.elapsed_ms,
     total_tokens |-> SumSeq([i \in 1..Len(c[2]) |-> c[2][i].total_tokens]),
     total_cost_usd |-> SumSeq([i \in 1..Len(c[2]) |-> c[2][i].estimated_cost_usd]),
     agents_executed |-> c[1][1].agents_executed,
     agent_metrics |-> c[2],
     final_recommendations_count |-> f.recommendations_count,
     success |-> f.success]

\* finalize_request without the reset of current_request_metrics.
finalize_reset_keeps_context(c) == <<c[1], << >>>>

\* The collector after a successful finalize_request.
finalize_reset(c) == <<None, << >>>>

(***************************************************************************)
(* ObservabilityStorage                                                    *)
(*                                                                         *)
(* A storage value `st` is the record of the three caches and the          *)
(* directory.  A line of a partition file is <<"json", tokens>> when it    *)
(* holds the text json.dumps wrote for an envelope, <<"blank">> when it is *)
(* empty, and <<"garbage">> when json.loads cannot parse it.  The records  *)
(* of the model hold only native values, which _sanitize_numpy_types       *)
(* returns unchanged.                                                      *)
(***************************************************************************)

MetricsCacheCap == 100
AnalysesCacheCap == 100
DriftHistoryCap == 50
PreloadDays == 7

\* json.dumps chooses the JSON form of a value by its Python type.  In the
\* model the type of a value is known from the key it is stored under:
\* these keys hold booleans, an optional string, dicts, lists of dicts and
\* lists of strings; JsonStringKeys hold strings, every other key a number.
JsonBoolKeys == {"success", "drift_detected"}
JsonNullableKeys == {"error_message"}
JsonObjectKeys ==
    {"data", "analysis", "entropy_analysis", "ks_tests", "statistical_summary",
     "execution_time", "token_usage", "costs"}
JsonObjectArrayKeys == {"agent_metrics"}
JsonStringArrayKeys ==
    {"agents_executed", "drift_indicators", "recommendations", "text_quality",
     "reasoning_analysis"}
JsonStringKeys ==
    {"type", "timestamp", "request_id", "requested_item", "country", "urgency",
     "strategy", "agent_name", "input_text", "output_text", "model_name", "message",
     "confidence", "performance_analysis", "comprehensive_report"}

\* The JSON text of a dict, as the tree of its tokens.
RECURSIVE json_encode(_)
json_encode(obj) ==
    <<"object",
      [k \in DOMAIN obj |->
         CASE k \in JsonBoolKeys -> IF obj[k] THEN <<"true">> ELSE <<"false">>
           [] k \in JsonNullableKeys ->
                IF obj[k] = None THEN <<"null">> ELSE <<"string", obj[k][1]>>
           [] k \in JsonObjectKeys -> json_encode(obj[k])
           [] k \in JsonObjectArrayKeys ->
                <<"array", [i \in 1..Len(obj[k]) |-> json_encode(obj[k][i])]>>
           [] k \in JsonStringArrayKeys ->
                <<"array", [i \in 1..Len(obj[k]) |-> <<"string", obj[k][i]>>]>>
           [] k \in JsonStringKeys -> <<"string", obj[k]>>
           [] OTHER -> <<"number", obj[k]>>]>>

\* The Python value of a JSON text: what it is follows from its tokens alone.
\* A string under an Optional key is the present value of the Optional.
RECURSIVE json_decode(_)
json_decode(j) ==
    CASE j[1] = "object" ->
            [k \in DOMAIN j[2] |->
                IF k \in JsonNullableKeys /\ j[2][k][1] # "null"
                THEN Some(json_decode(j[2][k]))
                ELSE json_decode(j[2][k])]
      [] j[1] = "array" -> [i \in 1..Len(j[2]) |-> json_decode(j[2][i])]
      [] j[1] = "true" -> TRUE
      [] j[1] = "false" -> FALSE
      [] j[1] = "null" -> None
      [] OTHER -> j[2]

JsonDumps(envelope) == <<"json", json_encode(envelope)>>
JsonParses(line) == line[1] = "json"
JsonLoads(line) == json_decode(line[2])

\* cache.append(rec) without the pop of the oldest entry.
cache_append_unbounded(cache, rec, cap) == Append(cache, rec)

\* cache.append(rec); if len(cache) > cap: cache.pop(0)
cache_append(cache, rec, cap) ==
    LET a == Append(cache, rec) IN IF Len(a) > cap THEN Tail(a) ELSE a

\* _append_to_file: one line appended to the partition of `day`, or nothing
\* when the write raises (the exception is printed and swallowed).
append_to_file(fs, day, envelope, io_ok) ==
    IF ~io_ok THEN fs
    ELSE [d \in DOMAIN fs \cup {day} |->
            IF d = day
            THEN (IF d \in DOMAIN fs THEN fs[d] ELSE << >>) \o <<JsonDumps(envelope)>>
            ELSE fs[d]]

\* _append_to_file without its try/except.
append_raises_on_failure(io_ok) == ~io_ok

\* _append_to_file catches every exception of open and write.
append_raises(io_ok) == FALSE

store_request_metrics(st, metrics, day, io_ok) ==
    [st EXCEPT
        !.recent_metrics = cache_append(@, metrics, MetricsCacheCap),
        !.files = append_to_file(@, day,
                      [type |-> "request_metrics", timestamp |-> day, data |-> metrics],
                      io_ok)]

AnalysisData(request_id, analysis, day) ==
    [request_id |-> request_id, timestamp |-> day, analysis |-> analysis]

store_ai_analysis(st, request_id, analysis, day, io_ok) ==
    [st EXCEPT
        !.recent_analyses =
            cache_append(@, AnalysisData(request_id, analysis, day), AnalysesCacheCap),
        !.files = append_to_file(@, day,
                      [type |-> "ai_analysis", timestamp |-> day,
                       data |-> AnalysisData(request_id, analysis, day)],
                      io_ok)]

DriftData(drift_analysis, day) == [timestamp |-> day, analysis |-> drift_analysis]

store_drift_analysis(st, drift_analysis, day, io_ok) ==
    [st EXCEPT
        !.drift_history =
            cache_append(@, DriftData(drift_analysis, day), DriftHistoryCap),
        !.files = append_to_file(@, day,
                      [type |-> "drift_analysis", timestamp |-> day,
                       data |-> DriftData(drift_analysis, day)],
                      io_ok)]

get_recent_metrics(st, limit) == LastN(st.recent_metrics, limit)
get_recent_analyses(st, limit) == LastN(st.recent_analyses, limit)
get_drift_history(st, limit) == LastN(st.drift_history, limit)

RECURSIVE Concat(_)
\* The sequences of `seqs` one after the other.
Concat(seqs) ==
    IF seqs = << >> THEN << >>
    ELSE IF Len(seqs) = 1 THEN seqs[1]
    ELSE Concat(SubSeq(seqs, 1, Len(seqs) \div 2))
         \o Concat(SubSeq(seqs, Len(seqs) \div 2 + 1, Len(seqs)))

\* sorted(agent_counts.items(), key=lambda x: x[1], reverse=True): the sort is
\* stable and the dict keeps its keys in the order of their first insertion.
sorted_agent_counts(recent) ==
    LET agents == Concat([i \in 1..Len(recent) |-> recent[i].agents_executed])
        names == {agents[i] : i \in 1..Len(agents)}
        count == [x \in names |-> Cardinality({i \in 1..Len(agents) : agents[i] = x})]
        first == [x \in names |->
                     CHOOSE i \in 1..Len(agents) :
                        agents[i] = x /\ \A j \in 1..(i - 1) : agents[j] # x]
        before == [x \in names |->
                      Cardinality({y \in names :
                                      \/ count[y] > count[x]
                                      \/ count[y] = count[x] /\ first[y] < first[x]})]
    IN  [r \in 1..Cardinality(names) |->
            LET x == CHOOSE y \in names : before[y] = r - 1 IN <<x, count[x]>>]

\* The body of get_metrics_summary once the records of the period are chosen.
\* The quotients are rounded down.
summary_of(recent, hours) ==
    IF recent = << >>
    THEN [count |-> 0, time_period_hours |-> hours,
          message |-> "No metrics in time period"]
    ELSE LET total_requests == Len(recent)
             successful_requests == Len(SelectSeq(recent, LAMBDA m : m.success))
             total_cost == SumSeq([i \in 1..Len(recent) |-> recent[i].total_cost_usd])
         IN  [count |-> total_requests,
              time_period_hours |-> hours,
              success_rate |-> (successful_requests * 100) \div total_requests,
              avg_execution_time_ms |->
                 SumSeq([i \in 1..Len(recent) |-> recent[i].total_execution_time_ms])
                    \div total_requests,
              avg_tokens_per_request |->
                 SumSeq([i \in 1..Len(recent) |-> recent[i].total_tokens]) \div total_requests,
              avg_cost_per_request_usd |-> total_cost \div total_requests,
              total_cost_usd |-> total_cost,
              most_used_agents |-> FirstN(sorted_agent_counts(recent), 5)]

\* get_metrics_summary without the cutoff.
get_metrics_summary_of_all(st, hours, now, edge_in) ==
    summary_of(st.recent_metrics, hours)

\* get_metrics_summary(hours) for a whole number of days, the clock being read
\* in days: a record stamped on a later day than `now - hours / 24` is after
\* the cutoff, one stamped on that very day is after it iff edge_in (it was
\* stored later in its day than the time of day of the call).
get_metrics_summary(st, hours, now, edge_in) ==
    summary_of(SelectSeq(st.recent_metrics,
                   LAMBDA m : \/ m.timestamp > now - hours \div 24
                              \/ m.timestamp = now - hours \div 24 /\ edge_in),
               hours)

\* cleanup_old_files without the date test.
cleanup_old_files_all(fs, days_to_keep, now, past_midnight) ==
    [files |-> << >>, deleted_count |-> Cardinality(DOMAIN fs)]

\* cleanup_old_files(days_to_keep): a partition is deleted when the midnight
\* that starts its day is before now - days_to_keep; past_midnight is whether
\* the call comes later than 00:00:00 of the current day.
cleanup_old_files(fs, days_to_keep, now, past_midnight) ==
    LET old == {d \in DOMAIN fs :
                   \/ d < now - days_to_keep
                   \/ d = now - days_to_keep /\ past_midnight}
    IN  [files |-> [d \in DOMAIN fs \ old |-> fs[d]],
         deleted_count |-> Cardinality(old)]

\* The dispatch without its branch for drift reports.
stream_of_without_drift(data) ==
    CASE data.type = "request_metrics" -> "recent_metrics"
      [] data.type = "ai_analysis" -> "recent_analyses"
      [] OTHER -> ""

\* The cache a parsed line is appended to, by its "type"; "" when the type
\* is none of the three.
stream_of(data) ==
    CASE data.type = "request_metrics" -> "recent_metrics"
      [] data.type = "ai_analysis" -> "recent_analyses"
      [] data.type = "drift_analysis" -> "drift_history"
      [] OTHER -> ""

\* The loop over the lines of one file, inside one try: blank lines are
\* passed over, and the first line that json.loads rejects ends the reading
\* of the file.
load_file(lines, caches) ==
    LET bad == {i \in 1..Len(lines) : lines[i][1] # "blank" /\ ~JsonParses(lines[i])}
        stop == IF bad = {} THEN Len(lines) + 1
                ELSE CHOOSE i \in bad : \A j \in bad : i <= j
        read == SelectSeq(SubSeq(lines, 1, stop - 1), LAMBDA l : l[1] # "blank")
        loaded == [i \in 1..Len(read) |-> JsonLoads(read[i])]
        into(s) == LET ds == SelectSeq(loaded, LAMBDA d : stream_of(d) = s)
                   IN  [i \in 1..Len(ds) |-> ds[i].data]
    IN  [recent_metrics |-> caches.recent_metrics \o into("recent_metrics"),
         recent_analyses |-> caches.recent_analyses \o into("recent_analyses"),
         drift_history |-> caches.drift_history \o into("drift_history")]

\* for days_ago in range(7): today's partition first, then the older ones.
RECURSIVE load_days(_, _, _, _)
load_days(fs, day, days_ago, caches) ==
    IF days_ago >= PreloadDays THEN caches
    ELSE load_days(fs, day, days_ago + 1,
                   IF (day - days_ago) \in DOMAIN fs
                   THEN load_file(fs[day - days_ago], caches)
                   ELSE caches)

\* ObservabilityStorage(storage_dir): empty caches, then _load_recent_data.
load_recent_data(fs, day) ==
    LET c == load_days(fs, day, 0,
                 [recent_metrics |-> << >>, recent_analyses |-> << >>,
                  drift_history |-> << >>])
    IN  [recent_metrics |-> LastN(c.recent_metrics, MetricsCacheCap),
         recent_analyses |-> LastN(c.recent_analyses, AnalysesCacheCap),
         drift_history |-> LastN(c.drift_history, DriftHistoryCap),
         files |-> fs]

(***************************************************************************)
(* DriftDetector                                                           *)
(*                                                                         *)
(* A detector value `det` is <<baseline_metrics, baseline_text_samples>>.  *)
(* Entropies are fixed-point numbers with 14 fractional bits.              *)
(***************************************************************************)

RECURSIVE output_texts(_)
\* Every non-empty unit output text of the metrics, in order.
output_texts(metrics) ==
    IF metrics = << >> THEN << >>
    ELSE IF Len(metrics) = 1
    THEN SelectSeq([i \in 1..Len(metrics[1].agent_metrics) |->
                        metrics[1].agent_metrics[i].output_text],
                   LAMBDA t : t # << >>)
    ELSE output_texts(SubSeq(metrics, 1, Len(metrics) \div 2))
         \o output_texts(SubSeq(metrics, Len(metrics) \div 2 + 1, Len(metrics)))

set_baseline(det, historical_metrics) ==
    <<Some([execution_times |-> [i \in 1..Len(historical_metrics) |->
                                    historical_metrics[i].total_execution_time_ms],
            token_counts |-> [i \in 1..Len(historical_metrics) |->
                                    historical_metrics[i].total_tokens],
            costs |-> [i \in 1..Len(historical_metrics) |->
                                    historical_metrics[i].total_cost_usd],
            quality_scores |-> << >>]),
      det[2] \o output_texts(historical_metrics)>>

RECURSIVE FloorLog2(_)
FloorLog2(n) == IF n < 2 THEN 0 ELSE 1 + FloorLog2(n \div 2)

FixedOne == 2^14

\* The fractional bits of log2(x / FixedOne), FixedOne <= x < 2 * FixedOne, by
\* repeated squaring; `w` is the weight of the next bit.
RECURSIVE Log2Frac(_, _)
Log2Frac(x, w) ==
    IF w = 0 THEN 0
    ELSE LET y == (x * x) \div FixedOne
         IN  IF y >= 2 * FixedOne
             THEN w + Log2Frac(y \div 2, w \div 2)
             ELSE Log2Frac(y, w \div 2)

\* math.log2(n) for an integer n >= 1, in units of 1 / FixedOne.
Log2Fixed(n) ==
    LET k == FloorLog2(n)
    IN  k * FixedOne + Log2Frac((n * FixedOne) \div (2^k), FixedOne \div 2)

\* The number of occurrences of x in seq (collections.Counter).
Count(seq, x) == Cardinality({i \in 1..Len(seq) : seq[i] = x})

\* -sum p*log2(p) over the distinct symbols of `symbols`, p = count / total:
\* each occurrence of a symbol with count c contributes (log2 total - log2 c) / total.
ShannonEntropy(symbols) ==
    LET total == Len(symbols)
        log_total == Log2Fixed(total)
        log_count == [x \in {symbols[i] : i \in 1..total} |->
                         Log2Fixed(Count(symbols, x))]
    IN  SumSeq([i \in 1..total |-> log_total - log_count[symbols[i]]]) \div total

RECURSIVE JoinTexts(_)
\* " ".join(text_samples)
JoinTexts(text_samples) ==
    IF text_samples = << >> THEN << >>
    ELSE IF Len(text_samples) = 1 THEN Head(text_samples)
    ELSE JoinTexts(SubSeq(text_samples, 1, Len(text_samples) \div 2))
         \o <<" ">>
         \o JoinTexts(SubSeq(text_samples, Len(text_samples) \div 2 + 1,
                             Len(text_samples)))

calculate_entropy(text_samples) ==
    IF text_samples = << >> THEN 0
    ELSE LET all_text == JoinTexts(text_samples)
         IN  IF all_text = << >> THEN 0 ELSE ShannonEntropy(all_text)

\* str.lower() on the characters of the model's alphabet.
Lower(ch) == CASE ch = "A" -> "a" [] ch = "B" -> "b" [] OTHER -> ch

RECURSIVE SplitWords(_, _)
\* text.lower().split(): the maximal runs of non-blank characters; `word` is
\* the run being read.
SplitWords(text, word) ==
    IF text = << >> THEN (IF word = << >> THEN << >> ELSE <<word>>)
    ELSE IF Head(text) = " "
         THEN (IF word = << >> THEN << >> ELSE <<word>>) \o SplitWords(Tail(text), << >>)
         ELSE SplitWords(Tail(text), Append(word, Lower(Head(text))))

RECURSIVE AllWords(_)
AllWords(text_samples) ==
    IF text_samples = << >> THEN << >>
    ELSE IF Len(text_samples) = 1 THEN SplitWords(text_samples[1], << >>)
    ELSE AllWords(SubSeq(text_samples, 1, Len(text_samples) \div 2))
         \o AllWords(SubSeq(text_samples, Len(text_samples) \div 2 + 1,
                            Len(text_samples)))

calculate_word_entropy(text_samples) ==
    IF text_samples = << >> THEN 0
    ELSE LET all_words == AllWords(text_samples)
         IN  IF all_words = << >> THEN 0 ELSE ShannonEntropy(all_words)

\* scipy.stats.ks_2samp is an external library.  Its result `o` (statistic
\* and p-value, in thousandths) is an input, except that two samples with the
\* same values have statistic 0 and p-value 1.
ks_2samp(baseline_data, current_data, o) ==
    IF \A v \in {baseline_data[i] : i \in 1..Len(baseline_data)}
              \cup {current_data[i] : i \in 1..Len(current_data)} :
          Count(baseline_data, v) * Len(current_data)
              = Count(current_data, v) * Len(baseline_data)
    THEN [statistic |-> 0, p_value |-> 1000]
    ELSE o

kolmogorov_smirnov_test(baseline_data, current_data, o) ==
    IF Len(baseline_data) < 2 \/ Len(current_data) < 2
    THEN [statistic |-> 0, p_value |-> 1000, drift_detected |-> FALSE,
          message |-> "Insufficient data for KS test"]
    ELSE LET r == ks_2samp(baseline_data, current_data, o)
             drift == r.p_value < 50
         IN  [statistic |-> r.statistic, p_value |-> r.p_value,
              drift_detected |-> drift,
              message |-> IF drift THEN "Significant drift detected"
                                   ELSE "No significant drift",
              confidence |-> IF r.p_value < 10 THEN "high"
                             ELSE IF r.p_value < 50 THEN "medium" ELSE "low"]

NaN == 0 - 1

\* float(np.mean(xs)), rounded down; nan for an empty list.
Mean(xs) == IF xs = << >> THEN NaN ELSE SumSeq(xs) \div Len(xs)

\* A mean comparison without the 1.2 factor.
MeanExceeds_any_increase(recent, baseline) ==
    /\ recent # << >> /\ baseline # << >>
    /\ SumSeq(recent) * Len(baseline) > SumSeq(baseline) * Len(recent)

\* mean(recent) > mean(baseline) * 1.2, exactly; false when either is nan.
MeanExceeds(recent, baseline) ==
    /\ recent # << >> /\ baseline # << >>
    /\ SumSeq(recent) * Len(baseline) * 10 > SumSeq(baseline) * Len(recent) * 12

\* abs(recent - baseline) / baseline in percent, 0 when baseline is 0.
EntropyChangePct(recent, baseline) ==
    IF baseline > 0
    THEN ((IF recent >= baseline THEN recent - baseline ELSE baseline - recent) * 100)
             \div baseline
    ELSE 0

\* An entropy check that flags any change at all.
EntropyChanged_any_change(recent, baseline) ==
    baseline > 0 /\ recent # baseline

\* abs(recent - baseline) / baseline > 0.15, exactly.
EntropyChanged(recent, baseline) ==
    /\ baseline > 0
    /\ (IF recent >= baseline THEN recent - baseline ELSE baseline - recent) * 100
           > 15 * baseline

Column(metrics, field) == [i \in 1..Len(metrics) |-> metrics[i][field]]

\* The three KS tests detect_drift runs; `ks` holds ks_2samp's three results.
KsTests(det, recent_metrics_, ks) ==
    [execution_time |->
        kolmogorov_smirnov_test(det[1][1].execution_times,
            Column(recent_metrics_, "total_execution_time_ms"), ks.execution_time),
     token_usage |->
        kolmogorov_smirnov_test(det[1][1].token_counts,
            Column(recent_metrics_, "total_tokens"), ks.token_usage),
     costs |->
        kolmogorov_smirnov_test(det[1][1].costs,
            Column(recent_metrics_, "total_cost_usd"), ks.costs)]

\* The f-strings of the two performance recommendations divide by the
\* baseline mean: ZeroDivisionError when it is 0.
detect_drift_raises(det, recent_metrics_, ks) ==
    /\ det[1] # None
    /\ recent_metrics_ # << >>
    /\ LET t == KsTests(det, recent_metrics_, ks)
       IN  \/ /\ t.execution_time.drift_detected
              /\ MeanExceeds(Column(recent_metrics_, "total_execution_time_ms"),
                             det[1][1].execution_times)
              /\ SumSeq(det[1][1].execution_times) = 0
           \/ /\ t.costs.drift_detected
              /\ MeanExceeds(Column(recent_metrics_, "total_cost_usd"), det[1][1].costs)
              /\ SumSeq(det[1][1].costs) = 0

\* The report of the full analysis, made when a baseline is set and the
\* recent metrics are not empty.
drift_report(det, recent_metrics_, ks) ==
    LET recent_execution_times == Column(recent_metrics_, "total_execution_time_ms")
        recent_token_counts == Column(recent_metrics_, "total_tokens")
        recent_costs == Column(recent_metrics_, "total_cost_usd")
        recent_text_samples == output_texts(recent_metrics_)
        baseline_entropy == calculate_entropy(det[2])
        baseline_word_entropy == calculate_word_entropy(det[2])
        recent_entropy == calculate_entropy(recent_text_samples)
        recent_word_entropy == calculate_word_entropy(recent_text_samples)
        t == KsTests(det, recent_metrics_, ks)
        drift_indicators ==
            (IF EntropyChanged(recent_entropy, baseline_entropy)
                THEN <<"Text entropy changed">> ELSE << >>)
            \o (IF EntropyChanged(recent_word_entropy, baseline_word_entropy)
                THEN <<"Word entropy changed">> ELSE << >>)
            \o (IF t.execution_time.drift_detected
                THEN <<"Execution time distribution has drifted">> ELSE << >>)
            \o (IF t.token_usage.drift_detected
                THEN <<"Token usage distribution has drifted">> ELSE << >>)
            \o (IF t.costs.drift_detected
                THEN <<"Cost distribution has drifted">> ELSE << >>)
        recommendations ==
            (IF recent_entropy * 100 < baseline_entropy * 85
                THEN <<"Output diversity has decreased">>
             ELSE IF recent_entropy * 100 > baseline_entropy * 115
                THEN <<"Output diversity has increased">> ELSE << >>)
            \o (IF t.execution_time.drift_detected
                   /\ MeanExceeds(recent_execution_times, det[1][1].execution_times)
                THEN <<"Performance degradation">> ELSE << >>)
            \o (IF t.costs.drift_detected
                   /\ MeanExceeds(recent_costs, det[1][1].costs)
                THEN <<"Cost increase">> ELSE << >>)
    IN  [drift_detected |-> Len(drift_indicators) > 0,
         message |-> IF Len(drift_indicators) > 0 THEN "Drift detected"
                                                  ELSE "No significant drift",
         drift_indicators |-> drift_indicators,
         entropy_analysis |->
            [baseline_char_entropy |-> baseline_entropy,
             recent_char_entropy |-> recent_entropy,
             char_entropy_change_pct |-> EntropyChangePct(recent_entropy, baseline_entropy),
             baseline_word_entropy |-> baseline_word_entropy,
             recent_word_entropy |-> recent_word_entropy,
             word_entropy_change_pct |->
                EntropyChangePct(recent_word_entropy, baseline_word_entropy)],
         ks_tests |-> t,
         statistical_summary |->
            [baseline_avg_time_ms |-> Mean(det[1][1].execution_times),
             recent_avg_time_ms |-> Mean(recent_execution_times),
             baseline_avg_tokens |-> Mean(det[1][1].token_counts),
             recent_avg_tokens |-> Mean(recent_token_counts),
             baseline_avg_cost |-> Mean(det[1][1].costs),
             recent_avg_cost |-> Mean(recent_costs)],
         recommendations |-> recommendations]

\* detect_drift without the early return for empty recent metrics.
detect_drift_without_empty_check(det, recent_metrics_, ks) ==
    IF det[1] = None
    THEN [drift_detected |-> FALSE,
          message |-> "No baseline set. Call set_baseline() first.",
          entropy_analysis |-> << >>, ks_tests |-> << >>, recommendations |-> << >>]
    ELSE drift_report(det, recent_metrics_, ks)

detect_drift(det, recent_metrics_, ks) ==
    IF det[1] = None
    THEN [drift_detected |-> FALSE,
          message |-> "No baseline set. Call set_baseline() first.",
          entropy_analysis |-> << >>, ks_tests |-> << >>, recommendations |-> << >>]
    ELSE IF recent_metrics_ = << >>
    THEN [drift_detected |-> FALSE,
          message |-> "No recent metrics to analyze",
          entropy_analysis |-> << >>, ks_tests |-> << >>, recommendations |-> << >>]
    ELSE drift_report(det, recent_metrics_, ks)

\* A severity that counts every flagged KS test, whatever its confidence.
get_drift_severity_any_confidence(drift_analysis) ==
    IF ~drift_analysis.drift_detected THEN "none"
    ELSE LET num_indicators == Len(drift_analysis.drift_indicators)
             flagged == Cardinality({k \in DOMAIN drift_analysis.ks_tests :
                                        drift_analysis.ks_tests[k].drift_detected})
         IN  IF flagged >= 2 \/ num_indicators >= 4 THEN "critical"
             ELSE IF flagged = 1 \/ num_indicators >= 3 THEN "high"
             ELSE IF num_indicators >= 2 THEN "medium"
             ELSE "low"

\* get_drift_severity: a missing key reads as its default.
get_drift_severity(drift_analysis) ==
    IF ~drift_analysis.drift_detected THEN "none"
    ELSE LET num_indicators ==
                 IF "drift_indicators" \in DOMAIN drift_analysis
                 THEN Len(drift_analysis.drift_indicators) ELSE 0
             ks_tests == drift_analysis.ks_tests
             critical_ks ==
                 Cardinality({k \in DOMAIN ks_tests :
                                 /\ "confidence" \in DOMAIN ks_tests[k]
                                 /\ ks_tests[k].confidence = "high"
                                 /\ ks_tests[k].drift_detected})
         IN  IF critical_ks >= 2 \/ num_indicators >= 4 THEN "critical"
             ELSE IF critical_ks = 1 \/ num_indicators >= 3 THEN "high"
             ELSE IF num_indicators >= 2 THEN "medium"
             ELSE "low"

(***************************************************************************)
(* ObservabilityMiddleware                                                 *)
(***************************************************************************)

RecentFetchLimit == 200
DriftMinRecords == 2
BaselineSeedMax == 100
RefreshMinRecords == 100
RefreshEvery == 50
RefreshWindowStart == 100
RefreshWindowEnd == 20
RecentWindowMax == 20

\* Python's seq[-a:-b] for a > b > 0.
SliceFromEnd(seq, a, b) ==
    SubSeq(seq, (IF Len(seq) > a THEN Len(seq) - a ELSE 0) + 1, Len(seq) - b)

\* _perform_ai_analysis: the unit it analyses is the recommendation_agent's,
\* or else the last one; what the language model answers is not modelled.
perform_ai_analysis(metrics_dict) ==
    LET ams == metrics_dict.agent_metrics
        hits == SelectSeq(ams, LAMBDA am : am.agent_name = "recommendation_agent")
        target == IF hits # << >> THEN Some(Head(hits))
                  ELSE IF ams # << >> THEN Some(ams[Len(ams)]) ELSE None
        quality == IF target # None /\ target[1].output_text # << >>
                   THEN <<target[1].agent_name>> ELSE << >>
        reasoning == IF target # None /\ target[1].input_text # << >>
                        /\ target[1].output_text # << >>
                     THEN <<target[1].agent_name>> ELSE << >>
    IN  [text_quality |-> quality, reasoning_analysis |-> reasoning,
         performance_analysis |-> metrics_dict.request_id,
         comprehensive_report |-> metrics_dict.request_id]

\* finalize_request, lines 169-204: the record and, when asked for, the AI
\* analysis are stored, then the baseline is seeded and refreshed.  `m` is
\* the middleware <<current_request_id, enable_ai_analysis, ai_analyzer>>.
\* The result holds the window detect_drift is run over, None when Storage
\* holds fewer than DriftMinRecords records, and whether lines 195-199 seeded
\* the baseline and lines 202-204 refreshed it.
finalize_store(m, det, st, metrics_dict, day, run_ai_analysis, io_ok) ==
    LET st1 == store_request_metrics(st, metrics_dict, day, io_ok)
        run_ai == IF run_ai_analysis = None THEN m[2] ELSE run_ai_analysis[1]
        enable == IF run_ai_analysis # None /\ run_ai_analysis[1] /\ ~m[2]
                  THEN TRUE ELSE m[2]
        st2 == IF run_ai
               THEN store_ai_analysis(st1, metrics_dict.request_id,
                        perform_ai_analysis(metrics_dict), day, io_ok)
               ELSE st1
        recent == get_recent_metrics(st2, RecentFetchLimit)
        det1 == IF det[1] = None
                THEN set_baseline(det, LastN(recent, Min(Len(recent), BaselineSeedMax)))
                ELSE det
        det2 == IF Len(recent) >= RefreshMinRecords /\ Len(recent) % RefreshEvery = 0
                THEN set_baseline(det1,
                         SliceFromEnd(recent, RefreshWindowStart, RefreshWindowEnd))
                ELSE det1
    IN  IF Len(recent) < DriftMinRecords
        THEN [m |-> <<m[1], enable, m[3] \/ run_ai>>, det |-> det, st |-> st2,
              recent_window |-> None, seeded |-> FALSE, refreshed |-> FALSE]
        ELSE [m |-> <<m[1], enable, m[3] \/ run_ai>>, det |-> det2, st |-> st2,
              recent_window |-> Some(LastN(recent, Min(Len(recent), RecentWindowMax))),
              seeded |-> det[1] = None,
              refreshed |-> (/\ Len(recent) >= RefreshMinRecords
                             /\ Len(recent) % RefreshEvery = 0)]

\* A finalize_request that runs detect_drift and drops its report.
finalize_drift_without_store(s, day, ks, io_ok) ==
    IF s.recent_window = None
    THEN [st |-> s.st, raised |-> FALSE, drift_analysis |-> None]
    ELSE IF detect_drift_raises(s.det, s.recent_window[1], ks)
    THEN [st |-> s.st, raised |-> TRUE, drift_analysis |-> None]
    ELSE [st |-> s.st, raised |-> FALSE,
          drift_analysis |-> Some(detect_drift(s.det, s.recent_window[1], ks))]

\* finalize_request, lines 206-212: detect_drift over the window and the
\* report stored, unless detect_drift raises.  `s` is finalize_store's result.
finalize_drift(s, day, ks, io_ok) ==
    IF s.recent_window = None
    THEN [st |-> s.st, raised |-> FALSE, drift_analysis |-> None]
    ELSE IF detect_drift_raises(s.det, s.recent_window[1], ks)
    THEN [st |-> s.st, raised |-> TRUE, drift_analysis |-> None]
    ELSE LET report == detect_drift(s.det, s.recent_window[1], ks)
         IN  [st |-> store_drift_analysis(s.st, report, day, io_ok),
              raised |-> FALSE, drift_analysis |-> Some(report)]

\* Whether ks_2samp is called on the two samples and its result is its own.
ks_consulted(baseline_data, current_data) ==
    /\ Len(baseline_data) >= 2
    /\ Len(current_data) >= 2
    /\ ks_2samp(baseline_data, current_data, None) = None

(***************************************************************************)
(* One caller driving one ObservabilityMiddleware on an empty directory    *)
(***************************************************************************)

Threads == {"t1", "t2"}

\* A caller that has not entered recommend_substitute.
NotCalled ==
    [pc |-> "begin", step |-> 0, request_id |-> None, tracked |-> << >>,
     metrics |-> None, error |-> ""]

\* No query of Storage answered yet.
NoQuery == [op |-> "none", limit |-> 0, result |-> << >>]

\* No record in any of the three streams.
NoRecords == [recent_metrics |-> << >>, recent_analyses |-> << >>, drift_history |-> << >>]

NumRequests == 2
MaxTracks == 2
Day0 == 10

Requests ==
    {[requested_item |-> <<"A">>, country |-> "CO", urgency |-> "medium"]}

TrackInputs ==
    {[agent_name |-> "manager_agent", input_text |-> <<"A">>,
      output_text |-> <<"a", " ", "b">>, execution_time_ms |-> 100,
      model_name |-> "us.amazon.nova-micro-v1:0", success |-> TRUE,
      error_message |-> None],
     [agent_name |-> "cost_agent", input_text |-> <<"A", "B">>,
      output_text |-> << >>, execution_time_ms |-> 200,
      model_name |-> "some-other-model", success |-> FALSE,
      error_message |-> Some("boom")]}

FinalizeInputs ==
    {[strategy |-> "fast", recommendations_count |-> 2, success |-> TRUE,
      elapsed_ms |-> 450],
     [strategy |-> "unknown", recommendations_count |-> 0, success |-> FALSE,
      elapsed_ms |-> 900]}

KsNoDrift == [statistic |-> 200, p_value |-> 800]

KsOutcomes == {[statistic |-> 1000, p_value |-> 5], KsNoDrift}

\* The results of the three ks_2samp calls of one detect_drift over the
\* window of `s`; a test that does not consult ks_2samp gets KsNoDrift.
KsInputs(s) ==
    IF s.recent_window = None \/ s.det[1] = None
    THEN {[execution_time |-> KsNoDrift, token_usage |-> KsNoDrift, costs |-> KsNoDrift]}
    ELSE [execution_time :
             IF ks_consulted(s.det[1][1].execution_times,
                    Column(s.recent_window[1], "total_execution_time_ms"))
             THEN KsOutcomes ELSE {KsNoDrift},
          token_usage :
             IF ks_consulted(s.det[1][1].token_counts,
                    Column(s.recent_window[1], "total_tokens"))
             THEN KsOutcomes ELSE {KsNoDrift},
          costs :
             IF ks_consulted(s.det[1][1].costs,
                    Column(s.recent_window[1], "total_cost_usd"))
             THEN KsOutcomes ELSE {KsNoDrift}]

Storage == [recent_metrics |-> recent_metrics, recent_analyses |-> recent_analyses,
            drift_history |-> drift_history, files |-> files]

\* The fields after a call that ran alone: it took the lock and gave it back.
SetStorage(st) ==
    /\ recent_metrics' = st.recent_metrics
    /\ recent_analyses' = st.recent_analyses
    /\ drift_history' = st.drift_history
    /\ files' = st.files
    /\ lock' = lock

SetCollector(c) ==
    /\ current_request_metrics' = c[1]
    /\ agent_metrics_list' = c[2]

SetDetector(det) ==
    /\ baseline_metrics' = det[1]
    /\ baseline_text_samples' = det[2]

SetMiddleware(m) ==
    /\ current_request_id' = m[1]
    /\ enable_ai_analysis' = m[2]
    /\ ai_analyzer' = m[3]

Outcome(op, raised, had_context) ==
    [op |-> op, raised |-> raised, had_context |-> had_context]

\* ObservabilityMiddleware.start_request_tracking
StartRequestTracking(req) ==
    /\ uuids < NumRequests
    /\ uuids' = uuids + 1
    /\ current_request_id' = Some(uuids + 1)
    /\ SetCollector(start_request(collector, uuids + 1, req, today))
    /\ last' = Outcome("start_request", "", current_request_metrics # None)
    /\ UNCHANGED <<enable_ai_analysis, ai_analyzer, detector, storage, today, ntracks,
                   observability_instance, threads>>
    /\ UNCHANGED observer

\* observability.metrics_collector.track_agent_execution(...)
TrackAgentExecution(a) ==
    /\ ntracks < MaxTracks
    /\ ntracks' = ntracks + 1
    /\ SetCollector(track_agent_execution(collector, a, today))
    /\ last' = Outcome("track_agent_execution", "", current_request_metrics # None)
    /\ UNCHANGED <<middleware, detector, storage, today, uuids,
                   observability_instance, threads>>
    /\ UNCHANGED observer

\* ObservabilityMiddleware.finalize_request with its four arguments, whether
\* the appends to the partition succeed, and the results of ks_2samp drawn
\* from KsResults(s).
MiddlewareFinalizeOver(f, run_ai_analysis, io_ok, KsResults(_)) ==
    IF finalize_raises(collector)
    THEN /\ last' = Outcome("finalize_request", "ValueError", current_request_metrics # None)
         /\ UNCHANGED <<collector, middleware, detector, storage>>
    ELSE LET s == finalize_store(middleware, detector, Storage,
                      RequestMetrics(collector, f), today, run_ai_analysis, io_ok)
         IN  \E ks \in KsResults(s) :
                LET d == finalize_drift(s, today, ks, io_ok)
                IN  /\ SetCollector(finalize_reset(collector))
                    /\ SetMiddleware(s.m)
                    /\ SetDetector(s.det)
                    /\ SetStorage(d.st)
                    /\ last' = Outcome("finalize_request",
                                   IF d.raised THEN "ZeroDivisionError" ELSE "",
                                   current_request_metrics # None)

MiddlewareFinalize(f, run_ai_analysis, io_ok) ==
    MiddlewareFinalizeOver(f, run_ai_analysis, io_ok, KsInputs)

FinalizeRequest ==
    /\ \E f \in FinalizeInputs, run_ai \in {None, Some(TRUE)} :
          MiddlewareFinalize(f, run_ai, TRUE)
    /\ UNCHANGED <<today, uuids, ntracks, observability_instance, threads>>
    /\ UNCHANGED observer

\* ObservabilityMiddleware(enable_ai_analysis=False) on an empty directory.
Init ==
    /\ current_request_metrics = None
    /\ agent_metrics_list = << >>
    /\ current_request_id = None
    /\ enable_ai_analysis = FALSE
    /\ ai_analyzer = enable_ai_analysis
    /\ baseline_metrics = None
    /\ baseline_text_samples = << >>
    /\ recent_metrics = << >>
    /\ recent_analyses = << >>
    /\ drift_history = << >>
    /\ files = << >>
    /\ lock = None
    /\ today = Day0
    /\ uuids = 0
    /\ ntracks = 0
    /\ observability_instance = TRUE
    /\ threads = [t \in Threads |-> NotCalled]
    /\ returned = NoQuery
    /\ appended = NoRecords
    /\ persisted = NoRecords
    /\ last = Outcome("init", "", FALSE)

Next ==
    \/ \E req \in Requests : StartRequestTracking(req)
    \/ \E a \in TrackInputs : TrackAgentExecution(a)
    \/ FinalizeRequest

Spec == Init /\ [][Next]_vars

(***************************************************************************)
(* recommend_substitute called from several threads.  The threads share    *)
(* the middleware that get_observability_middleware creates on first use;  *)
(* each call of a method of the middleware or the collector is one step.   *)
(***************************************************************************)

PipelineLen == 2

\* The nodes of the graph, in the order of its edges.
Agents ==
    <<"manager_agent", "catalog_search", "compliance_agent", "inventory_agent",
      "logistics_agent", "cost_agent", "coordinator_agent", "recommendation_agent">>

\* The model runs the first PipelineLen nodes.
Pipeline == SubSeq(Agents, 1, Min(PipelineLen, Len(Agents)))

WrapperModel == "us.amazon.nova-micro-v1:0"

\* The item each caller asks for.
RequestOf(t) ==
    [requested_item |-> IF t = "t1" THEN <<"A">> ELSE <<"B">>,
     country |-> "CO", urgency |-> "medium"]

\* What the pipeline hands to finalize_request when it completes.
PipelineResult ==
    [strategy |-> "balanced", recommendations_count |-> 2, success |-> TRUE,
     elapsed_ms |-> 450]

\* ObservabilityMiddleware.__init__ on the directory `fs`: a new collector,
\* a new detector, the caches loaded from the partitions, and the baseline
\* set when at least 20 records were loaded.
BaselineInitMin == 20
BaselineInitLimit == 100

middleware_init(fs, day, enable) ==
    LET st == load_recent_data(fs, day)
        recent == get_recent_metrics(st, BaselineInitLimit)
    IN  [c |-> <<None, << >>>>,
         m |-> <<None, enable, enable>>,
         det |-> IF Len(recent) >= BaselineInitMin
                 THEN set_baseline(<<None, << >>>>, recent)
                 ELSE <<None, << >>>>,
         st |-> st]

\* The arguments the wrapper passes to track_agent_execution after the agent
\* function returned (raised = FALSE) or raised.
WrapperTrackArgs(t, agent_name, raised) ==
    [agent_name |-> agent_name,
     input_text |-> RequestOf(t).requested_item,
     output_text |-> IF raised THEN << >> ELSE <<"o", "k">>,
     execution_time_ms |-> 100,
     model_name |-> WrapperModel,
     success |-> ~raised,
     error_message |-> IF raised THEN Some("agent failed") ELSE None]

\* recommend_substitute, line 45: get_observability_middleware.  The first
\* call constructs the middleware, and the construction can raise
\* (ObservabilityStorage is given keyword arguments its __init__ does not
\* take; the encoder and the directory are obtained there too); the
\* exception leaves recommend_substitute.
GetMiddleware(t) ==
    /\ threads[t].pc = "begin"
    /\ IF observability_instance
       THEN /\ threads' = [threads EXCEPT ![t].pc = "start"]
            /\ UNCHANGED <<collector, middleware, detector, storage,
                           observability_instance>>
       ELSE \E constructed \in BOOLEAN :
              IF constructed
              THEN LET i == middleware_init(files, today, FALSE)
                   IN  /\ SetCollector(i.c)
                       /\ SetMiddleware(i.m)
                       /\ SetDetector(i.det)
                       /\ SetStorage(i.st)
                       /\ observability_instance' = TRUE
                       /\ threads' = [threads EXCEPT ![t].pc = "start"]
              ELSE /\ threads' = [threads EXCEPT ![t].pc = "raised",
                                                 ![t].error = "observability"]
                   /\ UNCHANGED <<collector, middleware, detector, storage,
                                  observability_instance>>
    /\ UNCHANGED <<today, uuids, ntracks, last>>
    /\ UNCHANGED observer

\* recommend_substitute, lines 46-50: start_request_tracking.
StartTracking(t) ==
    /\ threads[t].pc = "start"
    /\ uuids' = uuids + 1
    /\ current_request_id' = Some(uuids + 1)
    /\ SetCollector(start_request(collector, uuids + 1, RequestOf(t), today))
    /\ threads' = [threads EXCEPT ![t].pc = "pipeline", ![t].step = 1,
                                  ![t].request_id = Some(uuids + 1)]
    /\ last' = Outcome("start_request", "", current_request_metrics # None)
    /\ UNCHANGED <<enable_ai_analysis, ai_analyzer, detector, storage, today, ntracks,
                   observability_instance>>
    /\ UNCHANGED observer

\* What one wrapped node can do: the agent function returns and the unit is
\* tracked; the agent function raises; the agent function returns and
\* track_agent_execution raises (the encoder refuses the text).
NodeOutcomes == {"returns", "agent_raises", "track_raises"}

\* One wrapped node of app.invoke.  Whatever raised inside the wrapper's try
\* block, the handler tracks a failed unit and re-raises, and the exception
\* leaves app.invoke and recommend_substitute.
AgentStep(t, outcome) ==
    /\ threads[t].pc = "pipeline"
    /\ LET raised == outcome # "returns"
           a == WrapperTrackArgs(t, Pipeline[threads[t].step], raised)
       IN  /\ SetCollector(track_agent_execution(collector, a, today))
           /\ threads' =
                [threads EXCEPT
                    ![t].tracked = Append(@, AgentMetrics(a, today)),
                    ![t].step = IF raised THEN @ ELSE @ + 1,
                    ![t].pc = IF raised THEN "raised"
                              ELSE IF threads[t].step = Len(Pipeline) THEN "finalize"
                              ELSE "pipeline",
                    ![t].error = CASE outcome = "agent_raises" -> "agent"
                                   [] outcome = "track_raises" -> "observability"
                                   [] OTHER -> @]
    /\ ntracks' = ntracks + 1
    /\ last' = Outcome("track_agent_execution", "", current_request_metrics # None)
    /\ UNCHANGED <<middleware, detector, storage, today, uuids, observability_instance>>
    /\ UNCHANGED observer

\* recommend_substitute, lines 98-127: finalize_request inside try/except;
\* the result is returned whether or not it raised.
ServiceFinalize(t) ==
    /\ threads[t].pc = "finalize"
    /\ IF finalize_raises(collector)
       THEN /\ threads' = [threads EXCEPT ![t].pc = "returned"]
       ELSE threads' = [threads EXCEPT
                           ![t].pc = "returned",
                           ![t].metrics = Some(RequestMetrics(collector, PipelineResult))]
    /\ MiddlewareFinalize(PipelineResult, Some(FALSE), TRUE)
    /\ UNCHANGED <<today, uuids, ntracks, observability_instance>>
    /\ UNCHANGED observer

\* No middleware yet, an empty directory, no caller inside recommend_substitute.
InitService ==
    /\ current_request_metrics = None
    /\ agent_metrics_list = << >>
    /\ current_request_id = None
    /\ enable_ai_analysis = FALSE
    /\ ai_analyzer = FALSE
    /\ baseline_metrics = None
    /\ baseline_text_samples = << >>
    /\ recent_metrics = << >>
    /\ recent_analyses = << >>
    /\ drift_history = << >>
    /\ files = << >>
    /\ lock = None
    /\ today = Day0
    /\ uuids = 0
    /\ ntracks = 0
    /\ observability_instance = FALSE
    /\ threads = [t \in Threads |-> NotCalled]
    /\ returned = NoQuery
    /\ appended = NoRecords
    /\ persisted = NoRecords
    /\ last = Outcome("init", "", FALSE)

NextService ==
    \/ \E t \in Threads : GetMiddleware(t)
    \/ \E t \in Threads : StartTracking(t)
    \/ \E t \in Threads, outcome \in NodeOutcomes : AgentStep(t, outcome)
    \/ \E t \in Threads : ServiceFinalize(t)

SpecService == InitService /\ [][NextService]_vars

(***************************************************************************)
(* ObservabilityStorage driven directly: stores into the three streams,    *)
(* queries, and the construction of a new ObservabilityStorage on the same *)
(* directory.  The directory starts as a run on the previous day left it.  *)
(***************************************************************************)

MaxStores == 2

Streams == {"recent_metrics", "recent_analyses", "drift_history"}

StreamCap ==
    [recent_metrics |-> MetricsCacheCap, recent_analyses |-> AnalysesCacheCap,
     drift_history |-> DriftHistoryCap]

\* The three caches by the name of their stream.
Caches ==
    [recent_metrics |-> recent_metrics, recent_analyses |-> recent_analyses,
     drift_history |-> drift_history]

\* How many records of each stream the previous day's run stored: none, or
\* one less than the cap.
Fills ==
    {[s \in Streams |-> 0],
     [s \in Streams |-> StreamCap[s] - 1]}

MaxFill == MetricsCacheCap

\* The limit of get_recent_metrics when the caller gives none.
DefaultLimit == 50

\* The limits get_recent_metrics is asked with.
QueryLimits == {0, 1, DefaultLimit}

\* The RequestMetrics of the n-th request: one tracked unit, n ms in all.
MetricsRecord(n, day) ==
    LET c0 == start_request(<<None, << >>>>, n,
                  [requested_item |-> <<"A">>, country |-> "CO", urgency |-> "medium"], day)
        c1 == track_agent_execution(c0,
                  [agent_name |-> "recommendation_agent", input_text |-> <<"A">>,
                   output_text |-> <<"o", "k">>, execution_time_ms |-> n,
                   model_name |-> WrapperModel, success |-> TRUE,
                   error_message |-> None], day)
    IN  RequestMetrics(c1, [strategy |-> "balanced", recommendations_count |-> 1,
                            success |-> TRUE, elapsed_ms |-> n])

\* The analysis _perform_ai_analysis makes of the n-th request.
AnalysisOf(n, day) == perform_ai_analysis(MetricsRecord(n, day))

\* A report of detect_drift about the n-th request: the baseline holds two
\* records, the window one, so the three KS tests have too little data.
DriftReportOf(n, day) ==
    detect_drift(set_baseline(<<None, << >>>>,
                     <<MetricsRecord(1, day), MetricsRecord(2, day)>>),
                 <<MetricsRecord(n, day)>>,
                 [execution_time |-> KsNoDrift, token_usage |-> KsNoDrift,
                  costs |-> KsNoDrift])

EmptyStorage ==
    [recent_metrics |-> << >>, recent_analyses |-> << >>, drift_history |-> << >>,
     files |-> << >>]

\* The partition a run on `day` leaves after storing fill[s] records in each
\* stream: the lines the three store operations write, one per record.
earlier_run(fill, day) ==
    [d \in {day} |->
        [n \in 1..fill.recent_metrics |->
            store_request_metrics(EmptyStorage, MetricsRecord(n, day), day, TRUE)
                .files[day][1]]
        \o [n \in 1..fill.recent_analyses |->
            store_ai_analysis(EmptyStorage, n, AnalysisOf(n, day), day, TRUE)
                .files[day][1]]
        \o [n \in 1..fill.drift_history |->
            store_drift_analysis(EmptyStorage, DriftReportOf(n, day), day, TRUE)
                .files[day][1]]]

\* The request id the next stored record carries.
NextSerial == MaxFill + uuids + 1

\* A store adds to what the stream was given and, when the append to the
\* partition succeeded, to what today's partition holds of the stream.
Observe(stream, rec, io_ok) ==
    /\ appended' = [appended EXCEPT ![stream] = Append(@, rec)]
    /\ persisted' = IF io_ok THEN [persisted EXCEPT ![stream] = Append(@, rec)]
                    ELSE persisted
    /\ returned' = NoQuery

\* storage.store_request_metrics(metrics); io_ok is whether open/write worked.
StoreRequestMetrics(io_ok) ==
    /\ uuids < MaxStores
    /\ uuids' = uuids + 1
    /\ LET rec == MetricsRecord(NextSerial, today)
       IN  /\ SetStorage(store_request_metrics(Storage, rec, today, io_ok))
           /\ Observe("recent_metrics", rec, io_ok)
    /\ last' = Outcome("store_request_metrics",
                       IF append_raises(io_ok) THEN "Exception" ELSE "", FALSE)
    /\ UNCHANGED <<collector, middleware, detector, today, ntracks,
                   observability_instance, threads>>

\* storage.store_ai_analysis(request_id, analysis)
StoreAiAnalysis(io_ok) ==
    /\ uuids < MaxStores
    /\ uuids' = uuids + 1
    /\ LET analysis == AnalysisOf(NextSerial, today)
       IN  /\ SetStorage(store_ai_analysis(Storage, NextSerial, analysis, today, io_ok))
           /\ Observe("recent_analyses", AnalysisData(NextSerial, analysis, today), io_ok)
    /\ last' = Outcome("store_ai_analysis",
                       IF append_raises(io_ok) THEN "Exception" ELSE "", FALSE)
    /\ UNCHANGED <<collector, middleware, detector, today, ntracks,
                   observability_instance, threads>>

\* storage.store_drift_analysis(drift_analysis)
StoreDriftAnalysis(io_ok) ==
    /\ uuids < MaxStores
    /\ uuids' = uuids + 1
    /\ LET report == DriftReportOf(NextSerial, today)
       IN  /\ SetStorage(store_drift_analysis(Storage, report, today, io_ok))
           /\ Observe("drift_history", DriftData(report, today), io_ok)
    /\ last' = Outcome("store_drift_analysis",
                       IF append_raises(io_ok) THEN "Exception" ELSE "", FALSE)
    /\ UNCHANGED <<collector, middleware, detector, today, ntracks,
                   observability_instance, threads>>

\* storage.get_recent_metrics(limit): the caches are only read.
GetRecentMetrics(limit) ==
    /\ returned' = [op |-> "get_recent_metrics", limit |-> limit,
                    result |-> get_recent_metrics(Storage, limit)]
    /\ last' = Outcome("get_recent_metrics", "", FALSE)
    /\ UNCHANGED <<collector, middleware, detector, storage, today, uuids, ntracks,
                   observability_instance, threads, appended, persisted>>

\* The process ends and ObservabilityStorage(storage_dir) is constructed
\* anew on the same directory, on the same day.
Restart ==
    /\ last.op # "restart"
    /\ LET st == load_recent_data(files, today)
       IN  /\ SetStorage(st)
           /\ appended' = [recent_metrics |-> st.recent_metrics,
                           recent_analyses |-> st.recent_analyses,
                           drift_history |-> st.drift_history]
    /\ returned' = NoQuery
    /\ last' = Outcome("restart", "", FALSE)
    /\ UNCHANGED <<collector, middleware, detector, today, uuids, ntracks,
                   observability_instance, threads, persisted>>

\* ObservabilityStorage constructed on the directory of the previous day's run.
InitStorage ==
    /\ current_request_metrics = None
    /\ agent_metrics_list = << >>
    /\ current_request_id = None
    /\ enable_ai_analysis = FALSE
    /\ ai_analyzer = FALSE
    /\ baseline_metrics = None
    /\ baseline_text_samples = << >>
    /\ today = Day0
    /\ \E fill \in Fills :
          LET dir == earlier_run(fill, Day0 - 1)
              st == load_recent_data(dir, Day0)
          IN  /\ recent_metrics = st.recent_metrics
              /\ recent_analyses = st.recent_analyses
              /\ drift_history = st.drift_history
              /\ files = st.files
              /\ lock = None
              /\ appended = [recent_metrics |-> st.recent_metrics,
                             recent_analyses |-> st.recent_analyses,
                             drift_history |-> st.drift_history]
    /\ persisted = NoRecords
    /\ returned = NoQuery
    /\ uuids = 0
    /\ ntracks = 0
    /\ observability_instance = FALSE
    /\ threads = [t \in Threads |-> NotCalled]
    /\ last = Outcome("init", "", FALSE)

NextStorage ==
    \/ \E io_ok \in BOOLEAN : StoreRequestMetrics(io_ok)
    \/ \E io_ok \in BOOLEAN : StoreAiAnalysis(io_ok)
    \/ \E io_ok \in BOOLEAN : StoreDriftAnalysis(io_ok)
    \/ \E limit \in QueryLimits : GetRecentMetrics(limit)
    \/ Restart

SpecStorage == InitStorage /\ [][NextStorage]_vars

(***************************************************************************)
(* store_request_metrics and get_recent_metrics called by several threads  *)
(* on one ObservabilityStorage, statement by statement.                    *)
(***************************************************************************)

MaxConcurrentStores == 2

\* A thread is outside store_request_metrics.
Outside(t) == threads[t].pc \in {"begin", "returned"}

\* `with self.lock` is entered only while no thread holds the lock.
lock_ignored(l) == TRUE

lock_free(l) == l = None

\* Leaving the `with` block gives the lock back.
lock_release(l) == None

\* with self.lock: sanitized_metrics = self._sanitize_numpy_types(metrics)
StoreAcquire(t) ==
    /\ Outside(t)
    /\ uuids < MaxConcurrentStores
    /\ lock_free(lock)
    /\ lock' = Some(t)
    /\ uuids' = uuids + 1
    /\ threads' = [threads EXCEPT ![t].pc = "locked",
                                  ![t].metrics = Some(MetricsRecord(NextSerial, today)),
                                  ![t].request_id = Some(NextSerial),
                                  ![t].error = ""]
    /\ appended' = [appended EXCEPT
                       !.recent_metrics = Append(@, MetricsRecord(NextSerial, today))]
    /\ returned' = NoQuery
    /\ last' = Outcome("store_request_metrics", "", FALSE)
    /\ UNCHANGED <<collector, middleware, detector, recent_metrics, recent_analyses,
                   drift_history, files, today, ntracks, observability_instance,
                   persisted>>

\* self.recent_metrics.append(sanitized_metrics)
StoreAppend(t) ==
    /\ threads[t].pc = "locked"
    /\ recent_metrics' = Append(recent_metrics, threads[t].metrics[1])
    /\ threads' = [threads EXCEPT ![t].pc = "appended"]
    /\ UNCHANGED <<collector, middleware, detector, recent_analyses, drift_history,
                   files, lock, today, uuids, ntracks, observability_instance,
                   observer, last>>

\* if len(self.recent_metrics) > 100: self.recent_metrics.pop(0)
StorePop(t) ==
    /\ threads[t].pc = "appended"
    /\ recent_metrics' = IF Len(recent_metrics) > MetricsCacheCap
                         THEN Tail(recent_metrics) ELSE recent_metrics
    /\ threads' = [threads EXCEPT ![t].pc = "trimmed"]
    /\ UNCHANGED <<collector, middleware, detector, recent_analyses, drift_history,
                   files, lock, today, uuids, ntracks, observability_instance,
                   observer, last>>

\* self._append_to_file({...}); io_ok is whether open and write worked.
StoreWrite(t, io_ok) ==
    /\ threads[t].pc = "trimmed"
    /\ files' = append_to_file(files, today,
                    [type |-> "request_metrics", timestamp |-> today,
                     data |-> threads[t].metrics[1]], io_ok)
    /\ persisted' = IF io_ok
                    THEN [persisted EXCEPT
                             !.recent_metrics = Append(@, threads[t].metrics[1])]
                    ELSE persisted
    /\ threads' = [threads EXCEPT
                      ![t].pc = IF append_raises(io_ok) THEN "raising" ELSE "written",
                      ![t].error = IF io_ok THEN "" ELSE "append"]
    /\ UNCHANGED <<collector, middleware, detector, recent_metrics, recent_analyses,
                   drift_history, lock, today, uuids, ntracks, observability_instance,
                   returned, appended, last>>

\* The end of the `with` block, reached by return or by an exception.
StoreRelease(t) ==
    /\ threads[t].pc \in {"written", "raising"}
    /\ lock' = lock_release(lock)
    /\ threads' = [threads EXCEPT
                      ![t].pc = IF threads[t].pc = "raising" THEN "raised" ELSE "returned"]
    /\ last' = Outcome("store_request_metrics",
                       IF threads[t].pc = "raising" THEN "Exception" ELSE "", FALSE)
    /\ UNCHANGED <<collector, middleware, detector, recent_metrics, recent_analyses,
                   drift_history, files, today, uuids, ntracks, observability_instance,
                   observer>>

\* with self.lock: return self.recent_metrics[-limit:]
ReadRecent(t) ==
    /\ Outside(t)
    /\ lock_free(lock)
    /\ returned' = [op |-> "get_recent_metrics", limit |-> DefaultLimit,
                    result |-> get_recent_metrics(Storage, DefaultLimit), by |-> t]
    /\ last' = Outcome("get_recent_metrics", "", FALSE)
    /\ UNCHANGED <<collector, middleware, detector, storage, today, uuids, ntracks,
                   observability_instance, threads, appended, persisted>>

NextConcurrent ==
    \/ \E t \in Threads : StoreAcquire(t)
    \/ \E t \in Threads : StoreAppend(t)
    \/ \E t \in Threads : StorePop(t)
    \/ \E t \in Threads, io_ok \in BOOLEAN : StoreWrite(t, io_ok)
    \/ \E t \in Threads : StoreRelease(t)
    \/ \E t \in Threads : ReadRecent(t)
    \/ \E io_ok \in BOOLEAN : lock_free(lock) /\ StoreAiAnalysis(io_ok)
    \/ \E io_ok \in BOOLEAN : lock_free(lock) /\ StoreDriftAnalysis(io_ok)

SpecConcurrent == InitStorage /\ [][NextConcurrent]_vars

(***************************************************************************)
(* ObservabilityStorage constructed on a directory whose partition of      *)
(* today holds blank and unparsable lines among the records.               *)
(***************************************************************************)

PartitionLen == 3

LineKinds == {"request_metrics", "drift_analysis", "blank", "garbage"}

\* The line of the given kind at position pos of the partition of `day`; the
\* records are numbered by their position.
LineAt(day, pos, kind) ==
    CASE kind = "request_metrics" ->
            store_request_metrics(EmptyStorage, MetricsRecord(pos, day), day, TRUE)
                .files[day][1]
      [] kind = "drift_analysis" ->
            store_drift_analysis(EmptyStorage, DriftReportOf(pos, day), day, TRUE)
                .files[day][1]
      [] OTHER -> <<kind>>

\* No ObservabilityStorage yet; the previous day's partition holds two
\* records, today's partition PartitionLen lines of any kind.
InitPreload ==
    /\ current_request_metrics = None
    /\ agent_metrics_list = << >>
    /\ current_request_id = None
    /\ enable_ai_analysis = FALSE
    /\ ai_analyzer = FALSE
    /\ baseline_metrics = None
    /\ baseline_text_samples = << >>
    /\ today = Day0
    /\ recent_metrics = << >>
    /\ recent_analyses = << >>
    /\ drift_history = << >>
    /\ lock = None
    /\ \E kinds \in [1..PartitionLen -> LineKinds] :
          files = [d \in {Day0 - 1, Day0} |->
                     IF d = Day0
                     THEN [pos \in 1..PartitionLen |-> LineAt(d, pos, kinds[pos])]
                     ELSE <<LineAt(d, PartitionLen + 1, "request_metrics"),
                            LineAt(d, PartitionLen + 2, "drift_analysis")>>]
    /\ appended = NoRecords
    /\ persisted = NoRecords
    /\ returned = NoQuery
    /\ uuids = 0
    /\ ntracks = 0
    /\ observability_instance = FALSE
    /\ threads = [t \in Threads |-> NotCalled]
    /\ last = Outcome("init", "", FALSE)

\* The construction, and after it stores and further constructions.
NextPreload ==
    \/ Restart
    \/ \E io_ok \in BOOLEAN : last.op # "init" /\ StoreRequestMetrics(io_ok)

SpecPreload == InitPreload /\ [][NextPreload]_vars

(***************************************************************************)
(* One DriftDetector: set_baseline, detect_drift and get_drift_severity    *)
(* called in any order.                                                    *)
(***************************************************************************)

MaxPoolLen == 2

\* The RequestMetrics of a request of n ms whose one unit put out `text`.
SampleRecord(n, text) ==
    LET c0 == start_request(<<None, << >>>>, n,
                  [requested_item |-> <<"A">>, country |-> "CO", urgency |-> "medium"], Day0)
        c1 == track_agent_execution(c0,
                  [agent_name |-> "recommendation_agent", input_text |-> <<"A">>,
                   output_text |-> text, execution_time_ms |-> n,
                   model_name |-> WrapperModel, success |-> TRUE,
                   error_message |-> None], Day0)
    IN  RequestMetrics(c1, [strategy |-> "balanced", recommendations_count |-> 1,
                            success |-> TRUE, elapsed_ms |-> n])

\* The output texts of the sample records.
SampleTexts ==
    [quick |-> <<"a", "b", "c", "d", "e", "f", "g", "h">>,
     slow |-> <<"a", "b", "c", "d", "e", "f", "g", "h", "i">>,
     wordy |-> <<"a", " ", "b">>,
     silent |-> << >>]

Sample(kind) ==
    SampleRecord(CASE kind = "slow" -> 300 [] kind = "wordy" -> 200 [] OTHER -> 100,
                 SampleTexts[kind])

\* The lists set_baseline is called with.
BaselineInputs ==
    {<< >>, <<Sample("quick"), Sample("quick")>>,
     <<Sample("wordy"), Sample("wordy"), Sample("quick")>>, <<Sample("silent")>>}

\* The lists detect_drift is called with.
RecentInputs ==
    {<< >>, <<Sample("quick")>>, <<Sample("slow"), Sample("slow")>>,
     <<Sample("wordy"), Sample("wordy")>>}

\* Results of ks_2samp: p below 0.01, p between 0.01 and 0.05, p above 0.05.
DetectorKsOutcomes == KsOutcomes \cup {[statistic |-> 600, p_value |-> 30]}

\* drift_detector.set_baseline(historical_metrics)
DetectorSetBaseline(historical_metrics) ==
    /\ Len(baseline_text_samples) <= MaxPoolLen
    /\ SetDetector(set_baseline(detector, historical_metrics))
    /\ returned' = [op |-> "set_baseline", arg |-> historical_metrics]
    /\ last' = Outcome("set_baseline", "", FALSE)
    /\ UNCHANGED <<collector, middleware, storage, today, uuids, ntracks,
                   observability_instance, threads, appended, persisted>>

\* drift_detector.detect_drift(recent_metrics), ks being ks_2samp's results.
DetectorDetectDrift(recent, ks) ==
    /\ returned' =
          IF detect_drift_raises(detector, recent, ks)
          THEN [op |-> "detect_drift", recent |-> recent, raised |-> TRUE,
                result |-> << >>]
          ELSE [op |-> "detect_drift", recent |-> recent, raised |-> FALSE,
                result |-> detect_drift(detector, recent, ks)]
    /\ last' = Outcome("detect_drift",
                       IF detect_drift_raises(detector, recent, ks)
                       THEN "ZeroDivisionError" ELSE "", baseline_metrics # None)
    /\ UNCHANGED <<collector, middleware, detector, storage, today, uuids, ntracks,
                   observability_instance, threads, appended, persisted>>

\* drift_detector.get_drift_severity(analysis) on the report just returned.
DetectorSeverity ==
    /\ returned.op = "detect_drift"
    /\ ~returned.raised
    /\ returned' = [op |-> "get_drift_severity", report |-> returned.result,
                    result |-> get_drift_severity(returned.result)]
    /\ last' = Outcome("get_drift_severity", "", baseline_metrics # None)
    /\ UNCHANGED <<collector, middleware, detector, storage, today, uuids, ntracks,
                   observability_instance, threads, appended, persisted>>

NextDetector ==
    \/ \E historical_metrics \in BaselineInputs : DetectorSetBaseline(historical_metrics)
    \/ \E recent \in RecentInputs,
          ks \in [execution_time : DetectorKsOutcomes, token_usage : KsOutcomes,
                  costs : KsOutcomes] : DetectorDetectDrift(recent, ks)
    \/ DetectorSeverity

\* A new DriftDetector; the rest as Init.
SpecDetector == Init /\ [][NextDetector]_vars

(***************************************************************************)
(* One ObservabilityMiddleware constructed on the directory of the         *)
(* previous day's run, then driven by one caller.                          *)
(***************************************************************************)

\* How many request records the previous day's run stored.
RefreshFills == {0, BaselineInitMin - 1, MetricsCacheCap - 1}

\* The agent executions tracked while the service runs on that directory.
MaxRefreshTracks == 1

\* The results of ks_2samp in which only the execution times may have drifted.
RefreshKsInputs(s) ==
    {ks \in KsInputs(s) : ks.token_usage = KsNoDrift /\ ks.costs = KsNoDrift}

\* finalize_request, with what it did noted in `returned`: how many request
\* records were stored so far, the counts at which the baseline was
\* refreshed, and the window and baseline of this call.
ObservedFinalize(f) ==
    /\ MiddlewareFinalizeOver(f, None, TRUE, RefreshKsInputs)
    /\ returned' =
          IF finalize_raises(collector)
          THEN [returned EXCEPT !.op = "finalize_request_raised"]
          ELSE LET s == finalize_store(middleware, detector, Storage,
                            RequestMetrics(collector, f), today, None, TRUE)
               IN  [op |-> "finalize_request",
                    stored |-> returned.stored + 1,
                    refreshes |-> IF s.refreshed
                                  THEN Append(returned.refreshes, returned.stored + 1)
                                  ELSE returned.refreshes,
                    seeded |-> s.seeded,
                    refreshed |-> s.refreshed,
                    recent_window |-> s.recent_window]
    /\ UNCHANGED <<today, uuids, ntracks, observability_instance, threads,
                   appended, persisted>>

\* get_observability_middleware(enable_ai_analysis=False) on that directory.
InitRefresh ==
    /\ today = Day0
    /\ \E n \in RefreshFills :
          LET dir == earlier_run([recent_metrics |-> n, recent_analyses |-> 0,
                                  drift_history |-> 0], Day0 - 1)
              mw == middleware_init(dir, Day0, FALSE)
          IN  /\ current_request_metrics = mw.c[1]
              /\ agent_metrics_list = mw.c[2]
              /\ current_request_id = mw.m[1]
              /\ enable_ai_analysis = mw.m[2]
              /\ ai_analyzer = mw.m[3]
              /\ baseline_metrics = mw.det[1]
              /\ baseline_text_samples = mw.det[2]
              /\ recent_metrics = mw.st.recent_metrics
              /\ recent_analyses = mw.st.recent_analyses
              /\ drift_history = mw.st.drift_history
              /\ files = mw.st.files
              /\ returned = [op |-> "none", stored |-> n, refreshes |-> << >>,
                             seeded |-> FALSE, refreshed |-> FALSE,
                             recent_window |-> None]
    /\ lock = None
    /\ appended = NoRecords
    /\ persisted = NoRecords
    /\ uuids = 0
    /\ ntracks = 0
    /\ observability_instance = TRUE
    /\ threads = [t \in Threads |-> NotCalled]
    /\ last = Outcome("init", "", FALSE)

NextRefresh ==
    \/ \E req \in Requests : StartRequestTracking(req)
    \/ \E a \in {a \in TrackInputs : a.success} :
          ntracks < MaxRefreshTracks /\ TrackAgentExecution(a)
    \/ \E f \in {f \in FinalizeInputs : f.success} : ObservedFinalize(f)

SpecRefresh == InitRefresh /\ [][NextRefresh]_vars

(***************************************************************************)
(* One ObservabilityStorage over several days: records stored, the summary *)
(* asked for and old partitions cleaned up.                                *)
(***************************************************************************)

MaxDayShift == 2
MaxSamples == 2

\* The steps the stored requests executed, and whether they succeeded.
SummarySamples ==
    {[agents |-> <<"manager_agent", "cost_agent", "speed_agent">>, success |-> TRUE],
     [agents |-> <<"report_agent", "manager_agent", "scout_agent", "audit_agent",
                   "speed_agent", "quality_agent">>,
      success |-> FALSE]}

\* The periods, in days, the summary and the cleanup are asked with.
QueryDays == {0, 1, 2}

RECURSIVE TrackAll(_, _, _)
\* One unit tracked per step of `agents`.
TrackAll(c, agents, day) ==
    IF agents = << >> THEN c
    ELSE TrackAll(track_agent_execution(c,
                      [agent_name |-> Head(agents), input_text |-> <<"A">>,
                       output_text |-> <<"o", "k">>, execution_time_ms |-> 100,
                       model_name |-> WrapperModel, success |-> TRUE,
                       error_message |-> None], day),
                  Tail(agents), day)

\* A request of the sample tracked and finalized, then store_request_metrics.
StoreSample(sample) ==
    /\ uuids < MaxSamples
    /\ uuids' = uuids + 1
    /\ LET c == TrackAll(start_request(<<None, << >>>>, uuids + 1,
                             [requested_item |-> <<"A">>, country |-> "CO",
                              urgency |-> "medium"], today),
                         sample.agents, today)
           rec == RequestMetrics(c, [strategy |-> "balanced",
                                     recommendations_count |-> 1,
                                     success |-> sample.success,
                                     elapsed_ms |-> 100 * Len(sample.agents)])
       IN  SetStorage(store_request_metrics(Storage, rec, today, TRUE))
    /\ returned' = NoQuery
    /\ last' = Outcome("store_request_metrics", "", FALSE)
    /\ UNCHANGED <<collector, middleware, detector, today, ntracks,
                   observability_instance, threads, appended, persisted>>

\* The UTC date changes.
NextDay ==
    /\ today < Day0 + MaxDayShift
    /\ today' = today + 1
    /\ returned' = NoQuery
    /\ last' = Outcome("next_day", "", FALSE)
    /\ UNCHANGED <<collector, middleware, detector, storage, uuids, ntracks,
                   observability_instance, threads, appended, persisted>>

\* storage.get_metrics_summary(hours): the caches are only read.
GetMetricsSummary(hours, edge_in) ==
    /\ returned' = [op |-> "get_metrics_summary", hours |-> hours, edge_in |-> edge_in,
                    result |-> get_metrics_summary(Storage, hours, today, edge_in)]
    /\ last' = Outcome("get_metrics_summary", "", FALSE)
    /\ UNCHANGED <<collector, middleware, detector, storage, today, uuids, ntracks,
                   observability_instance, threads, appended, persisted>>

\* storage.cleanup_old_files(days_to_keep)
CleanupOldFiles(days_to_keep, past_midnight) ==
    /\ LET r == cleanup_old_files(files, days_to_keep, today, past_midnight)
       IN  /\ files' = r.files
           /\ returned' = [op |-> "cleanup_old_files", days_to_keep |-> days_to_keep,
                           past_midnight |-> past_midnight, result |-> r.deleted_count]
    /\ last' = Outcome("cleanup_old_files", "", FALSE)
    /\ UNCHANGED <<collector, middleware, detector, recent_metrics, recent_analyses,
                   drift_history, lock, today, uuids, ntracks,
                   observability_instance, threads, appended, persisted>>

NextHousekeeping ==
    \/ \E sample \in SummarySamples : StoreSample(sample)
    \/ NextDay
    \/ \E days \in QueryDays, edge_in \in BOOLEAN :
          \* no record is stamped later than the call
          /\ edge_in => days > 0
          /\ GetMetricsSummary(24 * days, edge_in)
    \/ \E days_to_keep \in QueryDays, past_midnight \in BOOLEAN :
          CleanupOldFiles(days_to_keep, past_midnight)

\* A storage constructed on an empty directory.
SpecHousekeeping == Init /\ [][NextHousekeeping]_vars

(***************************************************************************)
(* get_observability_middleware called by two threads, statement by        *)
(* statement: the test of the global, then the construction and the        *)
(* assignment.                                                             *)
(***************************************************************************)

MaxCalls == 3

\* What the callers were given: `made` counts the ObservabilityMiddleware
\* objects constructed, `global` names the one the module global holds (by
\* the thread that made it and the number of its call), `got` the one each
\* thread was last returned.
NoInstances ==
    [op |-> "get_observability_middleware", made |-> 0, global |-> None,
     got |-> [t \in Threads |-> None]]

\* Line 334: `if _observability_instance is None`, and line 341 when it is not.
SingletonTest(t) ==
    /\ threads[t].pc = "begin"
    /\ threads[t].step < MaxCalls
    /\ IF observability_instance
       THEN /\ threads' = [threads EXCEPT ![t].pc = "begin", ![t].step = @ + 1]
            /\ returned' = [returned EXCEPT !.got[t] = returned.global]
       ELSE /\ threads' = [threads EXCEPT ![t].pc = "constructing"]
            /\ returned' = returned
    /\ UNCHANGED <<collector, middleware, detector, storage, observability_instance,
                   today, uuids, ntracks, last, appended, persisted>>

\* Lines 335-341: ObservabilityMiddleware(...) is constructed, assigned to the
\* global and returned; or the constructor raises and the global stays None.
SingletonConstruct(t, constructed) ==
    /\ threads[t].pc = "constructing"
    /\ IF constructed
       THEN LET i == middleware_init(files, today, FALSE)
                made == <<t, threads[t].step>>
            IN  /\ SetCollector(i.c)
                /\ SetMiddleware(i.m)
                /\ SetDetector(i.det)
                /\ SetStorage(i.st)
                /\ observability_instance' = TRUE
                /\ threads' = [threads EXCEPT ![t].pc = "begin", ![t].step = @ + 1]
                /\ returned' = [returned EXCEPT !.made = @ + 1,
                                                !.global = Some(made),
                                                !.got[t] = Some(made)]
       ELSE /\ threads' = [threads EXCEPT ![t].pc = "begin", ![t].step = @ + 1,
                                          ![t].error = "observability"]
            /\ returned' = returned
            /\ UNCHANGED <<collector, middleware, detector, storage,
                           observability_instance>>
    /\ UNCHANGED <<today, uuids, ntracks, last, appended, persisted>>

\* The process before the first call, on an empty directory.
InitSingleton ==
    /\ current_request_metrics = None
    /\ agent_metrics_list = << >>
    /\ current_request_id = None
    /\ enable_ai_analysis = FALSE
    /\ ai_analyzer = FALSE
    /\ baseline_metrics = None
    /\ baseline_text_samples = << >>
    /\ recent_metrics = << >>
    /\ recent_analyses = << >>
    /\ drift_history = << >>
    /\ files = << >>
    /\ lock = None
    /\ today = Day0
    /\ uuids = 0
    /\ ntracks = 0
    /\ observability_instance = FALSE
    /\ threads = [t \in Threads |-> NotCalled]
    /\ returned = NoInstances
    /\ appended = NoRecords
    /\ persisted = NoRecords
    /\ last = Outcome("init", "", FALSE)

NextSingleton ==
    \/ \E t \in Threads : SingletonTest(t)
    \/ \E t \in Threads, constructed \in BOOLEAN : SingletonConstruct(t, constructed)

SpecSingleton == InitSingleton /\ [][NextSingleton]_vars

(***************************************************************************)
(* The two entropies of a DriftDetector's pool of text samples             *)
(***************************************************************************)

MaxTextLen == 2

\* The texts of at most MaxTextLen characters, and the pools of 1 or 2 of them.
SampleTextsUpTo(n) ==
    UNION {[1..len -> {"a", "A", " "}] : len \in 0..n}

TextPools ==
    UNION {[1..size -> SampleTextsUpTo(MaxTextLen)] : size \in {1, 2}}

\* drift_detector.calculate_entropy(self.baseline_text_samples)
CalculateEntropy ==
    /\ returned' = [op |-> "calculate_entropy",
                    result |-> calculate_entropy(baseline_text_samples)]
    /\ last' = Outcome("calculate_entropy", "", FALSE)
    /\ UNCHANGED <<collector, middleware, detector, storage, today, uuids, ntracks,
                   observability_instance, threads, appended, persisted>>

\* drift_detector.calculate_word_entropy(self.baseline_text_samples)
CalculateWordEntropy ==
    /\ returned' = [op |-> "calculate_word_entropy",
                    result |-> calculate_word_entropy(baseline_text_samples)]
    /\ last' = Outcome("calculate_word_entropy", "", FALSE)
    /\ UNCHANGED <<collector, middleware, detector, storage, today, uuids, ntracks,
                   observability_instance, threads, appended, persisted>>

\* A detector holding any of the pools.
InitEntropy ==
    /\ current_request_metrics = None
    /\ agent_metrics_list = << >>
    /\ current_request_id = None
    /\ enable_ai_analysis = FALSE
    /\ ai_analyzer = enable_ai_analysis
    /\ baseline_metrics = None
    /\ baseline_text_samples \in TextPools
    /\ recent_metrics = << >>
    /\ recent_analyses = << >>
    /\ drift_history = << >>
    /\ files = << >>
    /\ lock = None
    /\ today = Day0
    /\ uuids = 0
    /\ ntracks = 0
    /\ observability_instance = TRUE
    /\ threads = [t \in Threads |-> NotCalled]
    /\ returned = NoQuery
    /\ appended = NoRecords
    /\ persisted = NoRecords
    /\ last = Outcome("init", "", FALSE)

NextEntropy == CalculateEntropy \/ CalculateWordEntropy

SpecEntropy == InitEntropy /\ [][NextEntropy]_vars

(***************************************************************************)
(* The drift check of finalize_request, lines 193-209, run by two threads  *)
(* on one DriftDetector, set_baseline statement by statement.              *)
(***************************************************************************)

\* A Storage that was given two request records.
RaceStorage ==
    store_request_metrics(
        store_request_metrics(EmptyStorage, Sample("quick"), Day0, TRUE),
        Sample("slow"), Day0, TRUE)

\* Line 195: `if self.drift_detector.baseline_metrics is None`.
BaselineTest(t) ==
    /\ threads[t].pc = "begin"
    /\ threads' = [threads EXCEPT
                      ![t].pc = IF baseline_metrics = None THEN "set_baseline"
                                ELSE "detect_drift",
                      ![t].metrics = Some(get_recent_metrics(Storage, RecentFetchLimit))]
    /\ UNCHANGED <<collector, middleware, detector, storage, today, uuids, ntracks,
                   observability_instance, last, observer>>

\* set_baseline, lines 38-43: the dict of four empty lists is assigned.
BaselineAssign(t) ==
    /\ threads[t].pc = "set_baseline"
    /\ baseline_metrics' = Some([execution_times |-> << >>, token_counts |-> << >>,
                                 costs |-> << >>, quality_scores |-> << >>])
    /\ threads' = [threads EXCEPT ![t].pc = "append", ![t].step = 0]
    /\ UNCHANGED <<collector, middleware, baseline_text_samples, storage, today, uuids,
                   ntracks, observability_instance, last, observer>>

\* set_baseline, lines 45-60: one statement of the loop body, each of which
\* looks self.baseline_metrics up anew: the three appends, then the texts of
\* the record.  threads[t].step counts the statements done.
BaselineAppend(t) ==
    /\ threads[t].pc = "append"
    /\ LET historical_metrics == threads[t].metrics[1]
           metric == historical_metrics[threads[t].step \div 4 + 1]
           statement == threads[t].step % 4
       IN  /\ baseline_metrics' =
                 CASE statement = 0 ->
                         Some([baseline_metrics[1] EXCEPT !.execution_times =
                                  Append(@, metric.total_execution_time_ms)])
                   [] statement = 1 ->
                         Some([baseline_metrics[1] EXCEPT !.token_counts =
                                  Append(@, metric.total_tokens)])
                   [] statement = 2 ->
                         Some([baseline_metrics[1] EXCEPT !.costs =
                                  Append(@, metric.total_cost_usd)])
                   [] OTHER -> baseline_metrics
           /\ baseline_text_samples' =
                 IF statement = 3
                 THEN baseline_text_samples \o output_texts(<<metric>>)
                 ELSE baseline_text_samples
           /\ threads' = [threads EXCEPT
                             ![t].step = @ + 1,
                             ![t].pc = IF threads[t].step + 1 = 4 * Len(historical_metrics)
                                       THEN "detect_drift" ELSE "append"]
    /\ UNCHANGED <<collector, middleware, storage, today, uuids, ntracks,
                   observability_instance, last, observer>>

\* detect_drift, lines 202-216: the baseline arrays are read for the KS tests.
BaselineRead(t) ==
    /\ threads[t].pc = "detect_drift"
    /\ threads' = [threads EXCEPT ![t].pc = "done"]
    /\ returned' = [op |-> "detect_drift", by |-> t, read |-> baseline_metrics[1],
                    recent |-> threads[t].metrics[1]]
    /\ UNCHANGED <<collector, middleware, detector, storage, today, uuids, ntracks,
                   observability_instance, last, appended, persisted>>

\* Two finalize_request calls that have both stored their record.
InitRace ==
    /\ current_request_metrics = None
    /\ agent_metrics_list = << >>
    /\ current_request_id = None
    /\ enable_ai_analysis = FALSE
    /\ ai_analyzer = enable_ai_analysis
    /\ baseline_metrics = None
    /\ baseline_text_samples = << >>
    /\ recent_metrics = RaceStorage.recent_metrics
    /\ recent_analyses = << >>
    /\ drift_history = << >>
    /\ files = RaceStorage.files
    /\ lock = None
    /\ today = Day0
    /\ uuids = 0
    /\ ntracks = 0
    /\ observability_instance = TRUE
    /\ threads = [t \in Threads |-> NotCalled]
    /\ returned = NoQuery
    /\ appended = NoRecords
    /\ persisted = NoRecords
    /\ last = Outcome("init", "", FALSE)

NextRace ==
    \/ \E t \in Threads : BaselineTest(t)
    \/ \E t \in Threads : BaselineAssign(t)
    \/ \E t \in Threads : BaselineAppend(t)
    \/ \E t \in Threads : BaselineRead(t)

SpecRace == InitRace /\ [][NextRace]_vars

(***************************************************************************)
(* Claims on the request lifecycle                                         *)
(***************************************************************************)

\* C1: every RequestMetrics that finalize_request returned (the middleware
\* stores each one as it is returned) has total_tokens equal to the sum of
\* total_tokens over its agent_metrics, and as many agents_executed as
\* agent_metrics.
C1_TotalsMatchUnits ==
    \A i \in 1..Len(recent_metrics) :
        LET r == recent_metrics[i]
        IN  /\ r.total_tokens = SumSeq(Column(r.agent_metrics, "total_tokens"))
            /\ Len(r.agents_executed) = Len(r.agent_metrics)

\* A request was finalized with two units of different token counts.
C1_Witness ==
    /\ last.op = "finalize_request" /\ last.raised = ""
    /\ \E i \in 1..Len(recent_metrics) :
          /\ Len(recent_metrics[i].agent_metrics) = 2
          /\ recent_metrics[i].agent_metrics[1].total_tokens
                # recent_metrics[i].agent_metrics[2].total_tokens
          /\ recent_metrics[i].total_tokens > 0

\* C2: start_request while a context is open fails with an error and leaves
\* the open context (request id, units tracked so far) unchanged.
C2_StartWhileOpenFails ==
    [][(current_request_metrics # None /\ uuids' = uuids + 1)
          => /\ last'.raised # ""
             /\ current_request_metrics' = current_request_metrics
             /\ agent_metrics_list' = agent_metrics_list]_vars

\* C3: track_agent_execution while the collector is idle is reported as an
\* error and adds no unit to any accumulator.
C3_TrackWhileIdleFails ==
    [][(current_request_metrics = None /\ ntracks' = ntracks + 1)
          => /\ last'.raised # ""
             /\ agent_metrics_list' = agent_metrics_list
             /\ current_request_metrics' = current_request_metrics]_vars

\* C4: finalize_request raises exactly when no context is open; after a
\* finalize_request the collector is idle, so a finalize_request that follows
\* another raises; and a finalize_request that raises for want of a context
\* changes neither the Storage caches and files nor the detector's baseline.
C4_SealedOnce ==
    /\ [](last.op = "finalize_request"
            => /\ (last.raised = "ValueError") <=> ~last.had_context
               /\ current_request_metrics = None)
    /\ [][(last.op = "finalize_request" /\ last'.op = "finalize_request")
            => last'.raised = "ValueError"]_vars
    /\ [][(last'.op = "finalize_request" /\ last'.raised = "ValueError")
            => UNCHANGED <<storage, detector, collector>>]_vars

\* A finalize_request raised after an earlier one had stored its record.
C4_Witness ==
    /\ last.op = "finalize_request" /\ last.raised = "ValueError"
    /\ Len(recent_metrics) >= 1
    /\ baseline_metrics = None

\* The record Storage holds for the request of caller t, if any.
StoredFor(t) ==
    {i \in 1..Len(recent_metrics) :
        threads[t].request_id # None
        /\ recent_metrics[i].request_id = threads[t].request_id[1]}

\* C5: when two requests interleave through the process-wide middleware, each
\* is finalized successfully and its RequestMetrics holds exactly the units
\* tracked on its behalf.
C5_RequestsIsolated ==
    \A t \in Threads :
        threads[t].pc = "returned"
            => /\ threads[t].metrics # None
               /\ threads[t].metrics[1].request_id = threads[t].request_id[1]
               /\ threads[t].metrics[1].agent_metrics = threads[t].tracked

\* C6: every request for which start_request_tracking was called is finalized
\* and stored by the time recommend_substitute is left, with success = false
\* when a pipeline step raised.
C6_AlwaysFinalized ==
    \A t \in Threads :
        (threads[t].request_id # None /\ threads[t].pc \in {"returned", "raised"})
            => /\ StoredFor(t) # {}
               /\ threads[t].error = "agent"
                     => \A i \in StoredFor(t) : ~recent_metrics[i].success

\* C7: recommend_substitute fails only when the pipeline itself fails, never
\* because obtaining the middleware, starting, finalizing or storing raised.
C7_ObservabilityNeverFatal ==
    \A t \in Threads : threads[t].pc = "raised" => threads[t].error = "agent"

\* The last n elements of seq, none when n = 0.
Suffix(seq, n) == SubSeq(seq, Len(seq) - n + 1, Len(seq))

\* C8: after any sequence of stores the request-metric cache and the analysis
\* cache hold at most 100 entries and the drift history at most 50, and each
\* cache is the most recent records given to its stream, in insertion order.
C8_CachesBounded ==
    \A s \in Streams :
        /\ Len(Caches[s]) <= StreamCap[s]
        /\ Caches[s] = Suffix(appended[s], Min(StreamCap[s], Len(appended[s])))

\* A store into a full cache has dropped the oldest entry of the cache.
C8_Witness ==
    /\ last.op \in {"store_request_metrics", "store_ai_analysis", "store_drift_analysis"}
    /\ \E s \in Streams :
          /\ Len(Caches[s]) = StreamCap[s]
          /\ Len(appended[s]) > StreamCap[s]
          /\ Caches[s][1] # appended[s][1]

\* C9: for every limit >= 0, get_recent_metrics(limit) returns at most limit
\* records, namely the last min(limit, cache length) records of the cache in
\* insertion order, and the call leaves the cache as it was.
C9_RecentMetricsWindow ==
    /\ [](returned.op = "get_recent_metrics"
            => /\ Len(returned.result) <= returned.limit
               /\ returned.result
                     = Suffix(recent_metrics, Min(returned.limit, Len(recent_metrics))))
    /\ [][returned'.op = "get_recent_metrics" => UNCHANGED storage]_vars

\* What a restart would read of each stream from the partitions of the last
\* PreloadDays days, before the caches are cut to their caps.
Readable == load_days(files, today, 0, NoRecords)

\* C10: a record written to today's partition is, after a new
\* ObservabilityStorage is constructed on the same directory, in the cache of
\* the stream it was stored in, equal to what the cache was given, provided
\* the partitions hold no more records of the stream than its cap.
C10_RoundTrip ==
    [][(last'.op = "restart")
          => \A s \in Streams :
                Len(Readable[s]) <= StreamCap[s]
                   => \A i \in 1..Len(persisted[s]) :
                         \E j \in 1..Len(Caches'[s]) : Caches'[s][j] = persisted[s][i]]_vars

\* A restart after a request record and a drift report were written today
\* next to the previous day's records, both streams exactly at their caps.
C10_Witness ==
    /\ last.op = "restart"
    /\ \A s \in {"recent_metrics", "drift_history"} :
          /\ Len(persisted[s]) >= 1
          /\ Len(Readable[s]) = StreamCap[s]
          /\ Caches[s][1] = persisted[s][1]

\* C11: after a restart that preloads several day-partitions the
\* request-metric cache is ordered oldest-first (request ids are given out in
\* the order of writing), and when the partitions hold more than 100 request
\* records the cache keeps the 100 most recently written ones.
C11_PreloadOldestFirst ==
    last.op = "restart"
        => /\ \A i, j \in 1..Len(recent_metrics) :
                 i < j => recent_metrics[i].request_id < recent_metrics[j].request_id
           /\ \A k \in 1..Len(Readable.recent_metrics) :
                 (\A i \in 1..Len(recent_metrics) :
                     recent_metrics[i] # Readable.recent_metrics[k])
                     => \A i \in 1..Len(recent_metrics) :
                           Readable.recent_metrics[k].request_id
                               < recent_metrics[i].request_id

\* The request records of the lines of today's partition, in the order of
\* the file.
TodayWritten ==
    IF today \in DOMAIN files
    THEN LET loaded == [i \in 1..Len(files[today]) |-> JsonLoads(files[today][i])]
             ms == SelectSeq(loaded, LAMBDA d : d.type = "request_metrics")
         IN  [i \in 1..Len(ms) |-> ms[i].data]
    ELSE << >>

\* Where a record stands in the request-metric cache; 0 when it is not there.
CacheIndex(rec) ==
    IF \E i \in 1..Len(recent_metrics) : recent_metrics[i] = rec
    THEN CHOOSE i \in 1..Len(recent_metrics) : recent_metrics[i] = rec
    ELSE 0

\* C12: under any interleaving of store_request_metrics calls from concurrent
\* threads, once all calls have returned no record is lost or duplicated: the
\* cache holds the records stored, up to the cap of 100, each once; each line
\* of the partition is one complete record; and the records of the partition
\* stand in the same order as in the cache.
C12_StoresSerialized ==
    (\A t \in Threads : Outside(t))
        => /\ Len(recent_metrics) = Min(MetricsCacheCap, Len(appended.recent_metrics))
           /\ \A r \in {appended.recent_metrics[i] :
                           i \in (Len(appended.recent_metrics) - Len(recent_metrics) + 1)
                                     ..Len(appended.recent_metrics)} :
                 Cardinality({i \in 1..Len(recent_metrics) : recent_metrics[i] = r}) = 1
           /\ today \in DOMAIN files
                 => \A i \in 1..Len(files[today]) : JsonParses(files[today][i])
           /\ TodayWritten = persisted.recent_metrics
           /\ \A i, j \in 1..Len(TodayWritten) :
                 (i < j /\ CacheIndex(TodayWritten[i]) > 0)
                     => CacheIndex(TodayWritten[i]) < CacheIndex(TodayWritten[j])

\* Two threads have stored, one of them into the full cache, and both lines
\* are in today's partition.
C12_Witness ==
    /\ \A t \in Threads : threads[t].pc = "returned"
    /\ Len(appended.recent_metrics) > MetricsCacheCap
    /\ Len(TodayWritten) = 2

\* The store operation of the two streams that are stored in one step.
StoreOp == [recent_analyses |-> "store_ai_analysis", drift_history |-> "store_drift_analysis"]

\* C13: when the durable append fails, store_request_metrics,
\* store_ai_analysis and store_drift_analysis do not raise, the record is in
\* the in-memory cache, and the lock is given back, so that later stores and
\* reads are not blocked.
C13_AppendFailureSwallowed ==
    /\ \A t \in Threads :
          (threads[t].error = "append" /\ threads[t].pc \in {"returned", "raised"})
              => /\ threads[t].pc = "returned"
                 /\ CacheIndex(threads[t].metrics[1]) > 0
                 /\ lock # Some(t)
                 /\ (\A u \in Threads : Outside(u)) => lock_free(lock)
    /\ \A s \in DOMAIN StoreOp :
          (/\ last.op = StoreOp[s]
           /\ \/ persisted[s] = << >>
              \/ persisted[s][Len(persisted[s])] # appended[s][Len(appended[s])])
              => /\ last.raised = ""
                 /\ Caches[s][Len(Caches[s])] = appended[s][Len(appended[s])]
                 /\ (\A u \in Threads : Outside(u)) => lock_free(lock)

\* A thread whose append failed has returned, and afterwards the other thread
\* has read the cache and found the record there.
C13_Witness ==
    \E t \in Threads :
        /\ threads[t].error = "append"
        /\ threads[t].pc = "returned"
        /\ returned.op = "get_recent_metrics"
        /\ returned.by # t
        /\ \E i \in 1..Len(returned.result) : returned.result[i] = threads[t].metrics[1]

\* C14: a malformed record met during preload is skipped: the construction
\* succeeds and every well-formed record, before and after the malformed one
\* in the same partition and in all other partitions, is loaded into its cache.
C14_MalformedSkipped ==
    last.op = "restart"
        => /\ last.raised = ""
           /\ \A d \in DOMAIN files :
                 (d > today - PreloadDays /\ d <= today)
                    => \A i \in 1..Len(files[d]) :
                          JsonParses(files[d][i])
                             => LET data == JsonLoads(files[d][i])
                                    cache == Caches[stream_of(data)]
                                IN  \E j \in 1..Len(cache) : cache[j] = data.data

(***************************************************************************)
(* Claims on the drift detector                                            *)
(***************************************************************************)

\* C15: after set_baseline(M), whatever calls preceded it, the duration, token
\* and cost arrays each hold one value per record of M and the text sample
\* pool holds exactly the non-empty unit output texts found in M.
C15_BaselineReplaced ==
    returned.op = "set_baseline" =>
        /\ baseline_metrics # None
        /\ Len(baseline_metrics[1].execution_times) = Len(returned.arg)
        /\ Len(baseline_metrics[1].token_counts) = Len(returned.arg)
        /\ Len(baseline_metrics[1].costs) = Len(returned.arg)
        /\ baseline_text_samples = output_texts(returned.arg)

\* C16: set_baseline with an empty list leaves the baseline unset: the
\* baseline-is-unset check still holds after it, and a detect_drift that
\* follows with non-empty recent metrics returns the "no baseline" report.
C16_EmptyBaselineUnset ==
    [][/\ (returned'.op = "set_baseline" /\ returned'.arg = << >>)
            => baseline_metrics' = None
       /\ (/\ returned.op = "set_baseline"
           /\ returned.arg = << >>
           /\ returned'.op = "detect_drift"
           /\ returned'.recent # << >>)
            => /\ ~returned'.raised
               /\ ~returned'.result.drift_detected
               /\ returned'.result.message
                      = "No baseline set. Call set_baseline() first."]_vars

\* C17: detect_drift called while the baseline is unset, or with an empty list
\* of recent metrics, does not raise, returns a report with drift_detected
\* false, a message, no KS tests and no recommendations, and leaves the
\* baseline as it was.
C17_DegenerateDetect ==
    [][(/\ returned'.op = "detect_drift"
        /\ (baseline_metrics = None \/ returned'.recent = << >>))
         => /\ ~returned'.raised
            /\ ~returned'.result.drift_detected
            /\ returned'.result.message # ""
            /\ DOMAIN returned'.result.ks_tests = {}
            /\ returned'.result.recommendations = << >>
            /\ detector' = detector]_vars

C17_Witness ==
    /\ returned.op = "detect_drift"
    /\ returned.recent = << >>
    /\ baseline_metrics # None
    /\ baseline_text_samples # << >>
    /\ ~returned.raised
    /\ returned.result.message = "No recent metrics to analyze"

\* C18: in every report detect_drift returns, drift_detected is true iff the
\* indicator list is non-empty, and a full report lists one indicator per
\* triggered condition in the order: character entropy changed by more than
\* 15%, word entropy changed by more than 15%, execution-time KS flag, token
\* KS flag, cost KS flag.
C18_IndicatorsMatchConditions ==
    (returned.op = "detect_drift" /\ ~returned.raised) =>
        LET r == returned.result
            listed == IF "drift_indicators" \in DOMAIN r
                      THEN r.drift_indicators ELSE << >>
            Moved(now, before) ==
                /\ before > 0
                /\ 100 * (IF now >= before THEN now - before ELSE before - now)
                       > 15 * before
            When(cond, text) == IF cond THEN <<text>> ELSE << >>
        IN  /\ r.drift_detected <=> listed # << >>
            /\ "drift_indicators" \in DOMAIN r =>
                  listed =
                     When(Moved(r.entropy_analysis.recent_char_entropy,
                                r.entropy_analysis.baseline_char_entropy),
                          "Text entropy changed")
                     \o When(Moved(r.entropy_analysis.recent_word_entropy,
                                   r.entropy_analysis.baseline_word_entropy),
                             "Word entropy changed")
                     \o When(r.ks_tests.execution_time.drift_detected,
                             "Execution time distribution has drifted")
                     \o When(r.ks_tests.token_usage.drift_detected,
                             "Token usage distribution has drifted")
                     \o When(r.ks_tests.costs.drift_detected,
                             "Cost distribution has drifted")

C18_Witness ==
    /\ returned.op = "detect_drift"
    /\ ~returned.raised
    /\ returned.result.drift_detected
    /\ Len(returned.result.drift_indicators) = 4
    /\ returned.result.drift_indicators[1] = "Text entropy changed"
    /\ returned.result.entropy_analysis.recent_word_entropy
           # returned.result.entropy_analysis.baseline_word_entropy

\* C19: every KS test result is a function of its p-value: with fewer than 2
\* points on either side it is statistic 0, p-value 1, drift false; the drift
\* flag is true iff p < 0.05; and the result carries a confidence label that
\* is "high" iff p < 0.01, "medium" iff 0.01 <= p < 0.05, "low" otherwise.
C19_KsFunctionOfP ==
    (/\ returned.op = "detect_drift"
     /\ ~returned.raised
     /\ "drift_indicators" \in DOMAIN returned.result) =>
        \A k \in DOMAIN returned.result.ks_tests :
            LET t == returned.result.ks_tests[k]
                short == \/ Len(returned.recent) < 2
                         \/ Len(baseline_metrics[1].execution_times) < 2
            IN  /\ short => (t.statistic = 0 /\ t.p_value = 1000 /\ ~t.drift_detected)
                /\ t.drift_detected <=> t.p_value < 50
                /\ "confidence" \in DOMAIN t
                /\ t.confidence = "high" <=> t.p_value < 10
                /\ t.confidence = "medium" <=> (10 <= t.p_value /\ t.p_value < 50)
                /\ t.confidence = "low" <=> t.p_value >= 50

\* C20: get_drift_severity returns "none" iff the report has drift_detected
\* false; otherwise, with h the number of KS tests both drift-flagged and of
\* confidence "high" and n the number of indicators, it returns "critical" if
\* h >= 2 or n >= 4, else "high" if h = 1 or n >= 3, else "medium" if n >= 2,
\* else "low".
C20_SeverityLadder ==
    returned.op = "get_drift_severity" =>
        LET r == returned.report
            n == IF "drift_indicators" \in DOMAIN r THEN Len(r.drift_indicators) ELSE 0
            h == Cardinality({k \in DOMAIN r.ks_tests :
                                 /\ r.ks_tests[k].drift_detected
                                 /\ "confidence" \in DOMAIN r.ks_tests[k]
                                 /\ r.ks_tests[k].confidence = "high"})
        IN  /\ returned.result = "none" <=> ~r.drift_detected
            /\ r.drift_detected =>
                  returned.result =
                     CASE h >= 2 \/ n >= 4 -> "critical"
                       [] ~(h >= 2 \/ n >= 4) /\ (h = 1 \/ n >= 3) -> "high"
                       [] ~(h >= 2 \/ n >= 4) /\ ~(h = 1 \/ n >= 3) /\ n >= 2 -> "medium"
                       [] OTHER -> "low"

C20_Witness ==
    /\ returned.op = "get_drift_severity"
    /\ returned.result = "medium"
    /\ returned.report.ks_tests.execution_time.drift_detected
    /\ Len(returned.report.drift_indicators) = 2

C22_FinalizeDriftStep ==
    [][(/\ returned'.op = "finalize_request"
        /\ returned'.stored = returned.stored + 1
        /\ last'.raised = "")
         => LET n == Len(recent_metrics')
                window == LastN(recent_metrics', Min(20, n))
                times == [i \in 1..Len(window) |-> window[i].total_execution_time_ms]
            IN  /\ n = Min(Len(recent_metrics) + 1, 100)
                /\ recent_metrics'[n].request_id = current_request_metrics[1].request_id
                /\ SubSeq(recent_metrics', 1, n - 1) = LastN(recent_metrics, n - 1)
                /\ n >= 2 =>
                      /\ baseline_metrics' # None
                      /\ baseline_metrics = None =>
                            baseline_metrics'[1].execution_times
                               = [i \in 1..Min(n, 100) |->
                                     recent_metrics'[n - Min(n, 100) + i]
                                         .total_execution_time_ms]
                      /\ Len(drift_history') = Len(drift_history) + 1
                      /\ SubSeq(drift_history', 1, Len(drift_history)) = drift_history
                      /\ drift_history'[Len(drift_history')].analysis
                             .statistical_summary.recent_avg_time_ms
                            = SumSeq(times) \div Len(times)
                /\ n < 2 =>
                      /\ drift_history' = drift_history
                      /\ detector' = detector]_vars

C22_Witness ==
    /\ returned.op = "finalize_request"
    /\ last.raised = ""
    /\ ~returned.seeded
    /\ Len(recent_metrics) = 21
    /\ Len(drift_history) = 2

\* C23: the periodic baseline refresh happens once every 50 finalized requests
\* once at least 100 records are available: two consecutive refreshes are
\* separated by 50 stored requests, not fewer.
C23_RefreshEveryFifty ==
    \A i \in 1..(Len(returned.refreshes) - 1) :
        returned.refreshes[i + 1] - returned.refreshes[i] >= 50

\* C28: when finalize_request refreshes the baseline, the baseline is built
\* from the older window, records [-100:-20] of the cache, which shares no
\* record with the 20 most recent records detect_drift is then run over.
C28_RefreshWindowsDisjoint ==
    (returned.op = "finalize_request" /\ returned.refreshed) =>
        LET n == Len(recent_metrics)
            older == SubSeq(recent_metrics, n - 99, n - 20)
            window == returned.recent_window[1]
        IN  /\ window = SubSeq(recent_metrics, n - 19, n)
            /\ \A i \in 1..Len(older), j \in 1..Len(window) : older[i] # window[j]
            /\ baseline_metrics[1].execution_times
                  = [i \in 1..Len(older) |-> older[i].total_execution_time_ms]
            /\ baseline_metrics[1].token_counts
                  = [i \in 1..Len(older) |-> older[i].total_tokens]
            /\ baseline_metrics[1].costs
                  = [i \in 1..Len(older) |-> older[i].total_cost_usd]
            /\ Len(baseline_text_samples)
                  = Cardinality({<<i, k>> \in (1..Len(older)) \X (1..MaxTracks + 1) :
                                    /\ k <= Len(older[i].agent_metrics)
                                    /\ older[i].agent_metrics[k].output_text # << >>})

\* C29: in every report detect_drift returns, a non-empty recommendations list
\* implies drift_detected, also when the baseline text pool is empty or has
\* zero entropy.
C29_RecommendationsImplyDrift ==
    (returned.op = "detect_drift" /\ ~returned.raised) =>
        (returned.result.recommendations # << >> => returned.result.drift_detected)

(***************************************************************************)
(* Claims on the summary and the cleanup                                   *)
(***************************************************************************)

\* C24: get_metrics_summary(hours) aggregates exactly the cached request
\* records stamped within the last `hours` hours: count is their number,
\* success_rate is 100 * successful / count, the averages are the sums divided
\* by count, and most_used_agents lists at most 5 step names by occurrence
\* count in descending order, ties in first-seen order; with no record in the
\* window the count is 0.
C24_SummaryAggregates ==
    returned.op = "get_metrics_summary" =>
        LET r == returned.result
            from == today - returned.hours \div 24
            inside == {i \in 1..Len(recent_metrics) :
                          \/ recent_metrics[i].timestamp > from
                          \/ recent_metrics[i].timestamp = from /\ returned.edge_in}
            Sum(field) ==
                SumSeq([i \in 1..Len(recent_metrics) |->
                           IF i \in inside THEN recent_metrics[i][field] ELSE 0])
            steps == {<<i, k>> \in inside \X (1..6) :
                         k <= Len(recent_metrics[i].agents_executed)}
            Name(p) == recent_metrics[p[1]].agents_executed[p[2]]
            Uses(x) == Cardinality({p \in steps : Name(p) = x})
            Seen(x) == CHOOSE p \in steps :
                          /\ Name(p) = x
                          /\ \A q \in steps : Name(q) = x =>
                                (p[1] < q[1] \/ (p[1] = q[1] /\ p[2] <= q[2]))
            Earlier(p, q) == p[1] < q[1] \/ (p[1] = q[1] /\ p[2] < q[2])
            top == r.most_used_agents
        IN  /\ r.count = Cardinality(inside)
            /\ r.count > 0 =>
                  /\ r.success_rate
                        = (100 * Cardinality({i \in inside : recent_metrics[i].success}))
                             \div r.count
                  /\ r.avg_execution_time_ms = Sum("total_execution_time_ms") \div r.count
                  /\ r.avg_tokens_per_request = Sum("total_tokens") \div r.count
                  /\ r.avg_cost_per_request_usd = Sum("total_cost_usd") \div r.count
                  /\ Len(top) = Min(5, Cardinality({Name(p) : p \in steps}))
                  /\ \A n \in 1..Len(top) :
                        /\ top[n][1] \in {Name(p) : p \in steps}
                        /\ top[n][2] = Uses(top[n][1])
                  /\ \A n \in 1..(Len(top) - 1) :
                        \/ top[n][2] > top[n + 1][2]
                        \/ /\ top[n][2] = top[n + 1][2]
                           /\ Earlier(Seen(top[n][1]), Seen(top[n + 1][1]))
                  /\ \A x \in {Name(p) : p \in steps} \ {top[n][1] : n \in 1..Len(top)} :
                        \/ Uses(x) < top[Len(top)][2]
                        \/ /\ Uses(x) = top[Len(top)][2]
                           /\ Earlier(Seen(top[Len(top)][1]), Seen(x))

C24_Witness ==
    /\ returned.op = "get_metrics_summary"
    /\ returned.result.count = 1
    /\ Len(recent_metrics) = 2
    /\ recent_metrics[1].success
    /\ returned.result.success_rate = 0
    /\ Len(returned.result.most_used_agents) = 5

\* C25: cleanup_old_files(days_to_keep) deletes exactly the day partitions
\* whose filename date is older than the retention window and returns the
\* number deleted; it leaves every other file and the caches unchanged, and
\* for days_to_keep >= 1 it never deletes the current day's partition.  The
\* partition dated exactly days_to_keep days back is older than the window
\* from the first instant after midnight.
C25_CleanupByFilenameDate ==
    [][(last'.op = "cleanup_old_files" /\ returned'.op = "cleanup_old_files")
         => LET k == returned'.days_to_keep
            IN  /\ DOMAIN files' \subseteq DOMAIN files
                /\ \A d \in DOMAIN files' : files'[d] = files[d]
                /\ \A d \in DOMAIN files :
                      /\ d < today - k => d \notin DOMAIN files'
                      /\ d > today - k => d \in DOMAIN files'
                      /\ d = today - k => (d \notin DOMAIN files' <=> returned'.past_midnight)
                /\ returned'.result = Cardinality(DOMAIN files \ DOMAIN files')
                /\ recent_metrics' = recent_metrics
                /\ recent_analyses' = recent_analyses
                /\ drift_history' = drift_history
                /\ (k >= 1 /\ today \in DOMAIN files) => today \in DOMAIN files']_vars

C25_Witness ==
    /\ returned.op = "cleanup_old_files"
    /\ returned.days_to_keep = 1
    /\ returned.result = 1
    /\ today \in DOMAIN files
    /\ Len(recent_metrics) = 2

(***************************************************************************)
(* Claims on the process-wide instance                                     *)
(***************************************************************************)

\* C26: the process-wide middleware is initialized once: every call of
\* get_observability_middleware returns the same instance and at most one
\* ObservabilityMiddleware is ever constructed, also when the first calls
\* come from concurrent threads.
C26_InitializedOnce ==
    /\ returned.made <= 1
    /\ \A t, u \in Threads :
          (returned.got[t] # None /\ returned.got[u] # None)
             => returned.got[t] = returned.got[u]

(***************************************************************************)
(* Claims on the entropies                                                 *)
(***************************************************************************)

\* C27: character entropy and word entropy are never negative; for a pool of
\* one or more samples that all consist of the same repeated character
\* calculate_entropy returns 0, and for a pool whose samples all consist of
\* the same repeated word calculate_word_entropy returns 0.
C27_RepeatedSymbolZero ==
    LET pool == baseline_text_samples
        OneCharacter ==
            \E ch \in {"a", "A", " "} :
                \A i \in 1..Len(pool) :
                    pool[i] # << >> /\ \A k \in 1..Len(pool[i]) : pool[i][k] = ch
        OneWord ==
            \E w \in SampleTextsUpTo(MaxTextLen) :
                \A i \in 1..Len(pool) :
                    LET words == SplitWords(pool[i], << >>)
                    IN  words # << >> /\ \A k \in 1..Len(words) : words[k] = w
    IN  /\ returned.op = "calculate_entropy" =>
              (returned.result >= 0 /\ (OneCharacter => returned.result = 0))
        /\ returned.op = "calculate_word_entropy" =>
              (returned.result >= 0 /\ (OneWord => returned.result = 0))

(***************************************************************************)
(* Claims on the shared detector                                           *)
(***************************************************************************)

\* C30: when finalize_request runs on two threads sharing one DriftDetector,
\* detect_drift never observes a partially built baseline: whenever it reads
\* the baseline, the duration, token and cost arrays have equal length and
\* hold all the values of one complete set_baseline call.
C30_BaselineReadWhole ==
    returned.op = "detect_drift" =>
        /\ Len(returned.read.execution_times) = Len(returned.read.token_counts)
        /\ Len(returned.read.token_counts) = Len(returned.read.costs)
        /\ returned.read.execution_times
              = [i \in 1..Len(returned.recent) |->
                    returned.recent[i].total_execution_time_ms]
        /\ returned.read.token_counts
              = [i \in 1..Len(returned.recent) |-> returned.recent[i].total_tokens]
        /\ returned.read.costs
              = [i \in 1..Len(returned.recent) |-> returned.recent[i].total_cost_usd]

====
